---- MODULE Spec2Model ----
(***************************************************************************)
(* A model of the rlox tree-walking interpreter: the Environment (scoped   *)
(* binding stack with shared value cells), closures (LoxFunction) and the  *)
(* evaluator, the parser, the scanner and the resolver.                    *)
(*                                                                         *)
(* Eight specifications share the module:                                  *)
(*   SpecEnv      drives the Environment API directly on an environment e; *)
(*   SpecCapture  adds an environment c captured from e, and drives both;  *)
(*   Spec         runs source lines through the evaluator against a        *)
(*                persistent global environment, as the prompt loop does;  *)
(*   SpecParse    gives token sequences to the parser;                     *)
(*   SpecScan     gives source texts to the scanner;                       *)
(*   SpecRoundTrip gives it source texts that spell token sequences;       *)
(*   SpecScanSteps runs the scanner's loop one scan_token call at a time;  *)
(*   SpecResolve  runs the resolver on a function declaration, and the     *)
(*                evaluator on a call of the function.                     *)
(*                                                                         *)
(* Rc<RefCell<EvalValue>> is a cell of `heap`, named by its index;         *)
(* Rc<LoxFunction> is an entry of `functions`, named by its index.         *)
(* Cloning an Rc copies the index; Rc::new appends.  Nothing is freed.     *)
(***************************************************************************)
EXTENDS Integers, Sequences, FiniteSets, TLC

VARIABLES
    heap,               \* the value cells (Rc<RefCell<EvalValue>>)
    \* ---- SpecEnv: the Environment API ----
    envs,               \* "e": the environment, "c": the one captured from it
    captured,           \* new_capture_env has run
    marks,              \* the bindings of e at each open push_scope (history)
    proper,             \* e saw no pop_scope without a matching push (history)
    created,            \* names set_var bound in e for the first time (history)
    cap_values,         \* the bindings of e when c was captured (history)
    only_set,           \* since the capture only set_var of captured names ran
    last_set,           \* the last set_var of SpecCapture (history)
    \* ---- Spec: the evaluator behind the prompt loop ----
    global_environment, \* the interpreter's global Environment
    functions,          \* the closures allocated so far (Rc<LoxFunction>)
    output,             \* what the last line wrote to standard output
    error,              \* the error the last line ended with, "" for none
    last_line,          \* the last line run (history)
    prev_line,          \* the line run before it (history)
    nlines,             \* the number of lines run
    \* ---- SpecParse: the parser ----
    input_tokens,       \* the token sequence given to parse
    parse_case,         \* what the tokens spell (history)
    parsed,             \* the result of parse, once it ran
    \* ---- SpecScan: the scanner ----
    scan_source,        \* the source text given to scan, one character each
    scan_case,          \* the tokens the source spells, if it was made so (history)
    scanned,            \* the result of scan, once it ran
    scanner,            \* SpecScanSteps: the Scanner inside scan_tokens
    \* ---- SpecResolve: the resolver and a call of the resolved function ----
    resolve_case,       \* the function declaration (history)
    resolved,           \* the slots the resolver stamped, once it ran
    activation          \* the bindings a call of the function reads, once it ran

envVars == <<envs, captured, marks, proper,
             created, cap_values, only_set, last_set>>
interpVars == <<global_environment, functions, output, error, last_line,
                prev_line, nlines>>
parseVars == <<input_tokens, parse_case, parsed>>
scanVars == <<scan_source, scan_case, scanned, scanner>>
resolveVars == <<resolve_case, resolved, activation>>
vars == <<heap, envVars, interpVars, parseVars, scanVars, resolveVars>>

(***************************************************************************)
(* Bounds                                                                  *)
(***************************************************************************)
MaxCells == 3           \* cells allocated in a run of SpecEnv
MaxScopes == 2          \* push_scope calls on e in a run of SpecEnv
MaxCapCells == 2        \* cells allocated in a run of SpecCapture
MaxCapScopes == 1       \* push_scope calls per environment in SpecCapture
MaxLines == 2           \* lines run in a run of Spec
MaxCalls == 2           \* calls of the counter closure in its line
MaxCallDepth == 8       \* nested calls the native stack holds
MaxLoopIters == 4       \* iterations of a while loop

EnvNames == {"a", "b"}
EnvIds == {"e", "c"}

(***************************************************************************)
(* EvalValue                                                               *)
(***************************************************************************)
Number(n) == [t |-> "Number", v |-> n]
Str(s) == [t |-> "Str", v |-> s]
Bool(b) == [t |-> "Bool", v |-> b]
Function(f) == [t |-> "Function", v |-> f]
Nil == [t |-> "Nil", v |-> 0]

EnvValues == {Number(1), Number(2)}

None == [some |-> FALSE, value |-> Nil]
Some(x) == [some |-> TRUE, value |-> x]

(***************************************************************************)
(* Environment                                                             *)
(***************************************************************************)
\* DefaultHasher is deterministic and a name is found by its hash alone:
\* a name stands for its hash (collisions of the 64-bit hash are not modelled).
hash_name(name) == name

StackValue(name, cell) == [hash |-> hash_name(name), value |-> cell]

new == [values |-> <<>>, scope_stack |-> <<>>]

\* Mutants of new_capture_env: no scope boundary at the end of the snapshot;
\* a deep copy of the cells instead of a clone of the Rc's.
new_capture_env_no_boundary(enclosing, h) ==
    [env |-> [values |-> enclosing.values, scope_stack |-> <<>>], heap |-> h]

new_capture_env_deep_copy(enclosing, h) ==
    [env |-> [values |-> [i \in 1..Len(enclosing.values) |->
                            [enclosing.values[i] EXCEPT !.value = Len(h) + i]],
              scope_stack |-> <<Len(enclosing.values)>>],
     heap |-> h \o [i \in 1..Len(enclosing.values) |-> h[enclosing.values[i].value]]]

\* Vec<StackValue>::clone clones each Rc: the copy names the same cells, and
\* no cell is allocated (the heap is returned as it was).
new_capture_env(enclosing, h) ==
    [env |-> [values |-> enclosing.values,
              scope_stack |-> <<Len(enclosing.values)>>],
     heap |-> h]

\* *self.scope_stack.last().unwrap_or(&0)
last_boundary(env) ==
    IF env.scope_stack = <<>> THEN 0 ELSE env.scope_stack[Len(env.scope_stack)]

MaxOf(S) == CHOOSE i \in S : \A j \in S : j <= i

\* The index (1-based) in env.values of the last binding of name above
\* stack_bottom_idx, 0 for None.
find_slot(env, name, stack_bottom_idx) ==
    LET hits == {i \in (stack_bottom_idx + 1)..Len(env.values) :
                    env.values[i].hash = hash_name(name)}
    IN  IF hits = {} THEN 0 ELSE MaxOf(hits)

find_eval_value(env, name, stack_bottom_idx) ==
    LET i == find_slot(env, name, stack_bottom_idx)
    IN  IF i = 0 THEN 0 ELSE env.values[i].value

\* The operations return the environment and the heap after the call.
\* Mutant of define_var: the search is not limited to the active scope.
define_var_whole_stack(env, h, name, value) ==
    LET i == find_slot(env, name, 0)
        cell == Len(h) + 1
    IN  IF i # 0
        THEN [env |-> [env EXCEPT !.values[i].value = cell], heap |-> Append(h, value)]
        ELSE [env |-> [env EXCEPT !.values = Append(@, StackValue(name, cell))],
              heap |-> Append(h, value)]

define_var(env, h, name, value) ==
    LET bottom == last_boundary(env)
        i == find_slot(env, name, bottom)
        cell == Len(h) + 1
    IN  IF i # 0
        THEN [env |-> [env EXCEPT !.values[i].value = cell], heap |-> Append(h, value)]
        ELSE [env |-> [env EXCEPT !.values = Append(@, StackValue(name, cell))],
              heap |-> Append(h, value)]

get_var(env, h, name) ==
    LET cell == find_eval_value(env, name, 0)
    IN  IF cell = 0 THEN None ELSE Some(h[cell])

\* Mutant of set_var: a bound name gets a new cell (as define_var gives it)
\* instead of a new value in its cell.
set_var_new_cell(env, h, name, value) ==
    LET i == find_slot(env, name, 0)
        cell == Len(h) + 1
    IN  IF i # 0
        THEN [env |-> [env EXCEPT !.values[i].value = cell], heap |-> Append(h, value)]
        ELSE [env |-> [env EXCEPT !.values = Append(@, StackValue(name, cell))],
              heap |-> Append(h, value)]

set_var(env, h, name, value) ==
    LET cell == find_eval_value(env, name, 0)
    IN  IF cell # 0
        THEN [env |-> env, heap |-> [h EXCEPT ![cell] = value]]
        ELSE [env |-> [env EXCEPT !.values = Append(@, StackValue(name, Len(h) + 1))],
              heap |-> Append(h, value)]

push_scope(env) == [env EXCEPT !.scope_stack = Append(@, Len(env.values))]

\* Vec::truncate(n) keeps the first n elements and does nothing when n >= len.
truncate(s, n) == IF n >= Len(s) THEN s ELSE SubSeq(s, 1, n)

\* Mutant of pop_scope: every binding is dropped, not those of the active
\* scope only.
pop_scope_clear(env) == [env EXCEPT !.values = <<>>]

pop_scope(env) == [env EXCEPT !.values = truncate(@, last_boundary(env))]

(***************************************************************************)
(* The Environment API as a state machine.                                 *)
(*   SpecEnv      one environment e: define_var, set_var, push_scope,      *)
(*                pop_scope in any order (also unmatched pops);            *)
(*   SpecCapture  e, then c = new_capture_env(e), then the same operations *)
(*                on e and on c.                                           *)
(***************************************************************************)
ApplyDefineVar(id, name, value) ==
    LET r == define_var(envs[id], heap, name, value)
    IN  /\ envs' = [envs EXCEPT ![id] = r.env]
        /\ heap' = r.heap

ApplySetVar(id, name, value) ==
    LET r == set_var(envs[id], heap, name, value)
    IN  /\ envs' = [envs EXCEPT ![id] = r.env]
        /\ heap' = r.heap

ApplyPushScope(id) ==
    /\ envs' = [envs EXCEPT ![id] = push_scope(envs[id])]
    /\ heap' = heap

ApplyPopScope(id) ==
    /\ envs' = [envs EXCEPT ![id] = pop_scope(envs[id])]
    /\ heap' = heap

NoSet == [env |-> "", name |-> "", value |-> Nil, old |-> None]
NoLine == <<"", 0, 0>>
NoCase == [kind |-> "", shape |-> <<>>]
NotParsed == [done |-> FALSE, ok |-> FALSE, stmts |-> <<>>, errors |-> <<>>]
NoTokens == [tokens |-> <<>>, space |-> ""]
NoDeclaration == [parameters |-> <<>>, body |-> <<>>]
NotResolved == [done |-> FALSE, stack_idx |-> <<>>]
NotCalled == [done |-> FALSE, reads |-> <<>>]
NotScanned == [done |-> FALSE, ok |-> FALSE, tokens |-> <<>>, errors |-> <<>>]
NoScanner == [source |-> <<>>, current |-> [index |-> 1, char |-> "NUL"], line |-> 1,
              tokens |-> <<>>, errors |-> <<>>]

cap_names == {cap_values[i].hash : i \in 1..Len(cap_values)}

IsUnbound(id, name) == find_eval_value(envs[id], name, 0) = 0

InitEnv ==
    /\ heap = <<>>
    /\ envs = [id \in EnvIds |-> new]
    /\ captured = FALSE
    /\ marks = <<>>
    /\ proper = TRUE
    /\ created = {}
    /\ cap_values = <<>>
    /\ only_set = FALSE
    /\ last_set = NoSet
    /\ global_environment = new
    /\ functions = <<>>
    /\ output = <<>>
    /\ error = ""
    /\ last_line = NoLine
    /\ prev_line = NoLine
    /\ nlines = 0
    /\ input_tokens = <<>>
    /\ parse_case = NoCase
    /\ parsed = NotParsed
    /\ scan_source = <<>>
    /\ scan_case = NoTokens
    /\ scanned = NotScanned
    /\ scanner = NoScanner
    /\ resolve_case = NoDeclaration
    /\ resolved = NotResolved
    /\ activation = NotCalled

DefineVar(name, value) ==
    /\ Len(heap) < MaxCells
    /\ ApplyDefineVar("e", name, value)
    /\ UNCHANGED <<captured, marks, proper, created, cap_values, only_set, last_set>>
    /\ UNCHANGED <<interpVars, parseVars, scanVars, resolveVars>>

SetVar(name, value) ==
    /\ IsUnbound("e", name) => Len(heap) < MaxCells
    /\ ApplySetVar("e", name, value)
    /\ created' = IF IsUnbound("e", name) THEN created \cup {name} ELSE created
    /\ UNCHANGED <<captured, marks, proper, cap_values, only_set, last_set>>
    /\ UNCHANGED <<interpVars, parseVars, scanVars, resolveVars>>

PushScope ==
    /\ Len(envs["e"].scope_stack) < MaxScopes
    /\ ApplyPushScope("e")
    /\ marks' = Append(marks, envs["e"].values)
    /\ UNCHANGED <<captured, proper, created, cap_values, only_set, last_set>>
    /\ UNCHANGED <<interpVars, parseVars, scanVars, resolveVars>>

PopScope ==
    /\ ApplyPopScope("e")
    /\ IF marks # <<>>
       THEN marks' = SubSeq(marks, 1, Len(marks) - 1) /\ proper' = proper
       ELSE marks' = marks /\ proper' = FALSE
    /\ UNCHANGED <<captured, created, cap_values, only_set, last_set>>
    /\ UNCHANGED <<interpVars, parseVars, scanVars, resolveVars>>

NextEnv ==
    \/ \E name \in EnvNames, value \in EnvValues : DefineVar(name, value)
    \/ \E name \in EnvNames, value \in EnvValues : SetVar(name, value)
    \/ PushScope
    \/ PopScope

SpecEnv == InitEnv /\ [][NextEnv]_vars

\* ---- SpecCapture ----
Live(id) == id = "e" \/ captured

NewCaptureEnv ==
    /\ ~captured
    /\ captured' = TRUE
    /\ LET r == new_capture_env(envs["e"], heap)
       IN  /\ envs' = [envs EXCEPT !["c"] = r.env]
           /\ heap' = r.heap
    /\ cap_values' = envs["e"].values
    /\ only_set' = TRUE
    /\ UNCHANGED <<marks, proper, created, last_set>>
    /\ UNCHANGED <<interpVars, parseVars, scanVars, resolveVars>>

CapDefineVar(id, name, value) ==
    /\ Live(id)
    /\ Len(heap) < MaxCapCells
    /\ ApplyDefineVar(id, name, value)
    /\ only_set' = FALSE
    /\ last_set' = NoSet
    /\ UNCHANGED <<captured, marks, proper, created, cap_values>>
    /\ UNCHANGED <<interpVars, parseVars, scanVars, resolveVars>>

CapSetVar(id, name, value) ==
    /\ Live(id)
    /\ IsUnbound(id, name) => Len(heap) < MaxCapCells
    /\ ApplySetVar(id, name, value)
    /\ only_set' = (only_set /\ name \in cap_names)
    /\ last_set' = IF only_set /\ name \in cap_names
                   THEN [env |-> id, name |-> name, value |-> value,
                         old |-> get_var(envs[id], heap, name)]
                   ELSE NoSet
    /\ UNCHANGED <<captured, marks, proper, created, cap_values>>
    /\ UNCHANGED <<interpVars, parseVars, scanVars, resolveVars>>

CapPushScope(id) ==
    /\ Live(id)
    /\ Len(envs[id].scope_stack) < MaxCapScopes + (IF id = "c" THEN 1 ELSE 0)
    /\ ApplyPushScope(id)
    /\ only_set' = FALSE
    /\ last_set' = NoSet
    /\ UNCHANGED <<captured, marks, proper, created, cap_values>>
    /\ UNCHANGED <<interpVars, parseVars, scanVars, resolveVars>>

CapPopScope(id) ==
    /\ Live(id)
    /\ ApplyPopScope(id)
    /\ only_set' = FALSE
    /\ last_set' = NoSet
    /\ UNCHANGED <<captured, marks, proper, created, cap_values>>
    /\ UNCHANGED <<interpVars, parseVars, scanVars, resolveVars>>

NextCapture ==
    \/ NewCaptureEnv
    \/ \E id \in EnvIds, name \in EnvNames, value \in EnvValues :
          CapDefineVar(id, name, value)
    \/ \E id \in EnvIds, name \in EnvNames, value \in EnvValues :
          CapSetVar(id, name, value)
    \/ \E id \in EnvIds : CapPushScope(id)
    \/ \E id \in EnvIds : CapPopScope(id)

SpecCapture == InitEnv /\ [][NextCapture]_vars

(***************************************************************************)
(* Claims about the Environment API                                        *)
(***************************************************************************)
\* A binding of name at position i of an environment's binding sequence.
Binds(env, i, name) == i \in 1..Len(env.values) /\ env.values[i].hash = name

\* The value read through the innermost binding of name, by an explicit
\* search of the binding sequence.
Reads(env, h, name, value) ==
    \E i \in 1..Len(env.values) :
        /\ Binds(env, i, name)
        /\ \A j \in (i + 1)..Len(env.values) : ~Binds(env, j, name)
        /\ h[env.values[i].value] = value

\* C1: in a properly nested sequence of push_scope, pop_scope, define_var and
\* set_var, each pop_scope leaves exactly the bindings that existed at its
\* matching push_scope.  (Stated as the claim has it; the code violates it.)
C1_PopRestoresBindings ==
    [][(PopScope /\ proper /\ marks # <<>>)
          => envs'["e"].values = marks[Len(marks)]]_vars

\* C3: define_var(name, v) acts on the active scope only (the bindings at or
\* above the last scope boundary).  If name is bound there, the number of
\* bindings is unchanged and get_var(name) returns v; if name is bound only
\* in an enclosing scope, exactly one binding is appended, get_var(name)
\* returns v and the enclosing binding keeps its cell and its value.
DefineVarPost(pre, h, post, h2, name, value) ==
    LET bottom == last_boundary(pre)
        inActive == \E i \in (bottom + 1)..Len(pre.values) : Binds(pre, i, name)
        inEnclosing == \E i \in 1..bottom : Binds(pre, i, name)
    IN  /\ inActive =>
              /\ Len(post.values) = Len(pre.values)
              /\ Reads(post, h2, name, value)
        /\ (~inActive /\ inEnclosing) =>
              /\ Len(post.values) = Len(pre.values) + 1
              /\ SubSeq(post.values, 1, Len(pre.values)) = pre.values
              /\ Binds(post, Len(post.values), name)
              /\ Reads(post, h2, name, value)
              /\ \A i \in 1..Len(pre.values) :
                    h2[pre.values[i].value] = h[pre.values[i].value]

C3_DefineVarActiveScope ==
    [][\A name \in EnvNames, value \in EnvValues :
          DefineVar(name, value)
             => DefineVarPost(envs["e"], heap, envs'["e"], heap', name, value)]_vars

\* Witness of C3: "a" is bound in the enclosing scope and in the active one
\* (define_var appended it), and the active binding's first cell was replaced
\* by a second define_var (cell 2 is no longer bound, no pop has run).
C3_Witness ==
    /\ envs["e"].scope_stack = <<1>>
    /\ Len(marks) = 1
    /\ Len(envs["e"].values) = 2
    /\ Binds(envs["e"], 1, "a")
    /\ Binds(envs["e"], 2, "a")
    /\ envs["e"].values[1].value = 1
    /\ envs["e"].values[2].value = 3

\* C4: set_var on a name bound nowhere creates a global-level binding, which
\* is still present after the scope that was active when set_var ran has
\* been popped.  (Stated as the claim has it; the code violates it.)
C4_SetVarCreatesGlobal ==
    proper => \A name \in created : \E i \in 1..Len(envs["e"].values) :
                  Binds(envs["e"], i, name)

\* C5: after c = new_capture_env(e), for every name bound in e at capture
\* time and any interleaving of set_var calls on e and on c for such names,
\* get_var(name) returns the same value through e and through c.
C5_CaptureSharesCells ==
    (captured /\ only_set) =>
        \A name \in cap_names :
            \E value \in EnvValues :
                /\ Reads(envs["e"], heap, name, value)
                /\ Reads(envs["c"], heap, name, value)

\* Witness of C5: a set_var through c changed the value read through e.
C5_Witness ==
    /\ captured /\ only_set
    /\ last_set.env = "c"
    /\ last_set.old.some /\ last_set.old.value # last_set.value
    /\ Reads(envs["e"], heap, last_set.name, last_set.value)

\* C6: after c = new_capture_env(e), define_var (of any name), push_scope,
\* pop_scope and set_var of a name unbound at capture time, applied to c,
\* leave e's binding sequence and the values of its cells as they were, and
\* leave the captured bindings of c in place.
StepOnCapture ==
    \/ \E name \in EnvNames, value \in EnvValues : CapDefineVar("c", name, value)
    \/ \E name \in EnvNames \ cap_names, value \in EnvValues :
          CapSetVar("c", name, value)
    \/ CapPushScope("c")
    \/ CapPopScope("c")

C6_CaptureIsolated ==
    [][StepOnCapture =>
          /\ envs'["e"] = envs["e"]
          /\ \A i \in 1..Len(envs["e"].values) :
                heap'[envs["e"].values[i].value] = heap[envs["e"].values[i].value]
          /\ Len(envs'["c"].values) >= Len(cap_values)
          /\ SubSeq(envs'["c"].values, 1, Len(cap_values)) = cap_values]_vars

\* Witness of C6: c declared a name of its own that e had bound at capture
\* time, and popped a scope, with e as it was at the capture.
C6_Witness ==
    /\ captured
    /\ envs["e"].values = cap_values
    /\ Len(cap_values) > 0
    /\ Len(envs["c"].values) > Len(cap_values)
    /\ Binds(envs["c"], Len(envs["c"].values), cap_values[1].hash)
    /\ Len(envs["c"].scope_stack) = 2

(***************************************************************************)
(* The AST (expr.rs, stmt.rs)                                              *)
(***************************************************************************)
ExprBool(b) == [k |-> "Bool", b |-> b]
ExprStr(s) == [k |-> "Str", s |-> s]
ExprNumber(n) == [k |-> "Number", n |-> n]
ExprNil == [k |-> "Nil"]
Token(token_type, line) == [token_type |-> token_type, line |-> line]
new_binary(left, operator, right) ==
    [k |-> "Binary", left |-> left, operator |-> operator, right |-> right]
new_grouping(expr) == [k |-> "Grouping", expr |-> expr]
new_logical_not(expr) == [k |-> "LogicalNot", expr |-> expr]
new_unary_negate(expr) == [k |-> "UnaryNegate", expr |-> expr]
new_variable(name, line) == [k |-> "Variable", name |-> name, line |-> line]
new_assignment(target, line, expr) ==
    [k |-> "Assignment", target |-> target, line |-> line, expr |-> expr]
new_call(callee, line, arguments) ==
    [k |-> "Call", callee |-> callee, line |-> line, arguments |-> arguments]

new_expr(expr) == [k |-> "Expr", expr |-> expr]
new_print(exprs) == [k |-> "Print", exprs |-> exprs]
new_if(condition, true_branch, else_branch) ==
    [k |-> "If", condition |-> condition, true_branch |-> true_branch,
     else_branch |-> else_branch]
new_block(statements) == [k |-> "Block", statements |-> statements]
new_var(name, line, initializer) ==
    [k |-> "Var", name |-> name, line |-> line, initializer |-> initializer]
new_while(condition, body) == [k |-> "While", condition |-> condition, body |-> body]
new_function(name, parameters, statements, line) ==
    [k |-> "Function", name |-> name, parameters |-> parameters,
     statements |-> statements, line |-> line]
new_return(expr) == [k |-> "Return", expr |-> expr]

\* Option<Stmt> of If.else_branch
NoStmt == [some |-> FALSE]
SomeStmt(stmt) == [some |-> TRUE, stmt |-> stmt]

arity(function) == Len(function.parameters)

(***************************************************************************)
(* The evaluator (interpreter.rs, eval_value.rs)                           *)
(*                                                                         *)
(* An InterpreterContext is a record m: the global environment (borrowed   *)
(* mutably by every context), the context's local environment, and the     *)
(* heap, the closures and the standard output, which all contexts share.   *)
(* A Number is an integer: the lines run here stay within the integers an  *)
(* f32 holds exactly.  Slash (f32 division) is not modelled.               *)
(* interpreter.rs calls Environment::set and Environment::get, which       *)
(* environment.rs (and eval_value.rs) name set_var and get_var.            *)
(***************************************************************************)
NoEnv == [some |-> FALSE, env |-> new]
SomeEnv(env) == [some |-> TRUE, env |-> env]

\* EvalResult = Result<EvalValue, String>, with the context m it leaves;
\* ok tells Ok from Err.
Ok(m, value) == [ok |-> TRUE, m |-> m, err |-> "", value |-> value]
Err(m, e) == [ok |-> FALSE, m |-> m, err |-> e, value |-> Nil]
\* StmtResult = Result<Option<EvalValue>, String>; go is Ok(None), the
\* result after which the next statement runs.
StmtOk(m, ret) == [ok |-> TRUE, go |-> ~ret.some, m |-> m, err |-> "", ret |-> ret]
StmtErr(m, e) == [ok |-> FALSE, go |-> FALSE, m |-> m, err |-> e, ret |-> None]

\* impl fmt::Display for EvalValue
Display(m, value) ==
    CASE value.t = "Number" -> ToString(value.v)
      [] value.t = "Str" -> value.v
      [] value.t = "Bool" -> (IF value.v THEN "true" ELSE "false")
      [] value.t = "Function" ->
            "Lox function <" \o m.functions[value.v].declaration.name \o ">"
      [] value.t = "Nil" -> "nil"

is_truthy(eval_value) ==
    CASE eval_value.t = "Number" -> eval_value.v # 0
      [] eval_value.t = "Str" -> eval_value.v # ""
      [] eval_value.t = "Bool" -> eval_value.v
      [] eval_value.t = "Function" -> TRUE
      [] eval_value.t = "Nil" -> FALSE

\* global_environment.set / local_environment.set on a context
set_global(m, name, value) ==
    LET r == set_var(m.global_environment, m.heap, name, value)
    IN  [m EXCEPT !.global_environment = r.env, !.heap = r.heap]

set_local(m, name, value) ==
    LET r == set_var(m.local_environment.env, m.heap, name, value)
    IN  [m EXCEPT !.local_environment = SomeEnv(r.env), !.heap = r.heap]

RECURSIVE evaluate_expr(_, _, _)
RECURSIVE execute(_, _, _)
RECURSIVE execute_many(_, _, _)
RECURSIVE print_exprs(_, _, _, _)
RECURSIVE while_loop(_, _, _, _)
RECURSIVE evaluate_arguments(_, _, _, _)
RECURSIVE bind_parameters(_, _, _, _)

(***************************************************************************)
(* A visit_* function that evaluates a sub-expression or runs a statement  *)
(* and goes on with its result is two definitions here: the visit_* one    *)
(* makes the recursive call, and the one before it is the rest of the Rust *)
(* function, with that call's result as its first parameter.               *)
(***************************************************************************)
visit_variable(m, variable) ==
    LET l == IF m.local_environment.some
             THEN get_var(m.local_environment.env, m.heap, variable.name)
             ELSE None
        g == get_var(m.global_environment, m.heap, variable.name)
    IN  IF l.some THEN Ok(m, l.value)
        ELSE IF g.some THEN Ok(m, g.value)
        ELSE Err(m, "Undefined variable " \o variable.name \o " at line "
                        \o ToString(variable.line))

\* Mutant of assign: an assignment to a name bound nowhere declares it.
assign_defines(value, assignment) ==
    IF ~value.ok THEN value
    ELSE IF value.m.local_environment.some
            /\ get_var(value.m.local_environment.env, value.m.heap,
                       assignment.target).some
    THEN Ok(set_local(value.m, assignment.target, value.value), value.value)
    ELSE Ok(set_global(value.m, assignment.target, value.value), value.value)

\* visit_assignment from `let is_target_in_local_env` on; value is the
\* result of evaluating assignment.expr.
assign(value, assignment) ==
    LET is_target_in_local_env ==
            IF value.m.local_environment.some
            THEN get_var(value.m.local_environment.env, value.m.heap,
                         assignment.target).some
            ELSE FALSE
    IN  IF ~value.ok THEN value
        ELSE IF is_target_in_local_env
        THEN Ok(set_local(value.m, assignment.target, value.value), value.value)
        ELSE IF get_var(value.m.global_environment, value.m.heap, assignment.target).some
        THEN Ok(set_global(value.m, assignment.target, value.value), value.value)
        ELSE Err(value.m, "Undefined variable " \o assignment.target \o " at line "
                              \o ToString(assignment.line))

visit_assignment(m, assignment, depth) ==
    assign(evaluate_expr(m, assignment.expr, depth), assignment)

\* The arms of the match on binary.operator.token_type that work on the two
\* evaluated operands.
binary_result(m, token_type, left, right) ==
    LET numbers == left.t = "Number" /\ right.t = "Number"
        l == left.v
        r == right.v
    IN  CASE token_type \in {"Less", "LessEqual", "Greater", "GreaterEqual",
                             "EqualEqual", "BangEqual", "Minus", "Star"} ->
                IF ~numbers THEN Err(m, "Must be numbers")
                ELSE (CASE token_type = "Less" -> Ok(m, Bool(l < r))
                        [] token_type = "LessEqual" -> Ok(m, Bool(l <= r))
                        [] token_type = "Greater" -> Ok(m, Bool(l > r))
                        [] token_type = "GreaterEqual" -> Ok(m, Bool(l >= r))
                        [] token_type = "EqualEqual" -> Ok(m, Bool(l = r))
                        [] token_type = "BangEqual" -> Ok(m, Bool(l # r))
                        [] token_type = "Minus" -> Ok(m, Number(l - r))
                        [] token_type = "Star" -> Ok(m, Number(l * r)))
          [] token_type = "Plus" ->
                IF numbers THEN Ok(m, Number(l + r))
                ELSE IF left.t = "Str" /\ right.t = "Str" THEN Ok(m, Str(l \o r))
                ELSE Err(m, "Must be numbers or string")
          [] OTHER -> Err(m, "Unsupported binary operator")

\* The And arm (stop_at = FALSE) and the Or arm (stop_at = TRUE) once the
\* arm has evaluated binary.left again: a left operand whose truth is
\* stop_at is the result, else binary.right is evaluated again.
binary_and_or(left, binary, depth, stop_at) ==
    IF left.ok /\ is_truthy(left.value) # stop_at
    THEN evaluate_expr(left.m, binary.right, depth)
    ELSE left

\* visit_binary from the match on; left and right are the results of
\* evaluating the operands.
binary_match(left, right, binary, depth) ==
    CASE ~right.ok -> right
      [] right.ok /\ binary.operator.token_type = "And" ->
            binary_and_or(evaluate_expr(right.m, binary.left, depth), binary, depth, FALSE)
      [] right.ok /\ binary.operator.token_type = "Or" ->
            binary_and_or(evaluate_expr(right.m, binary.left, depth), binary, depth, TRUE)
      [] right.ok /\ binary.operator.token_type \notin {"And", "Or"} ->
            binary_result(right.m, binary.operator.token_type, left.value, right.value)

\* visit_binary from `let right` on.
binary_right(left, binary, depth) ==
    IF left.ok
    THEN binary_match(left, evaluate_expr(left.m, binary.right, depth), binary, depth)
    ELSE left

visit_binary(m, binary, depth) ==
    binary_right(evaluate_expr(m, binary.left, depth), binary, depth)

logical_not(result) ==
    IF result.ok THEN Ok(result.m, Bool(~is_truthy(result.value)))
    ELSE result

visit_logical_not(m, expr, depth) == logical_not(evaluate_expr(m, expr, depth))

unary_negate(result) ==
    IF ~result.ok THEN result
    ELSE IF result.value.t = "Number" THEN Ok(result.m, Number(-result.value.v))
    ELSE Err(result.m, "Unary negate expected number")

visit_unary_negate(m, expr, depth) == unary_negate(evaluate_expr(m, expr, depth))

\* arguments.push(self.evaluate_expr(arg)?): acc is the context, the error
\* and the values pushed so far, arg the result of evaluating the argument.
push_argument(acc, arg) ==
    IF arg.ok
    THEN [ok |-> TRUE, m |-> arg.m, err |-> "", values |-> Append(acc.values, arg.value)]
    ELSE [ok |-> FALSE, m |-> arg.m, err |-> arg.err, values |-> <<>>]

\* for arg in &call.arguments { .. }, from index i on.
evaluate_arguments(acc, arguments, i, depth) ==
    IF i > Len(arguments) \/ ~acc.ok THEN acc
    ELSE evaluate_arguments(
            push_argument(acc, evaluate_expr(acc.m, arguments[i], depth)),
            arguments, i + 1, depth)

\* for arg in parameters.iter().zip(arguments.iter()) { environment.set_var(..) }
\* r is the environment and the heap so far.
bind_parameters(r, parameters, arguments, i) ==
    IF i > Len(parameters) \/ i > Len(arguments) THEN r
    ELSE bind_parameters(set_var(r.env, r.heap, parameters[i], arguments[i]),
                         parameters, arguments, i + 1)

\* The end of LoxFunction::call: result is what execute_many made of the
\* body, m the calling context, which goes on (back) with its own local
\* environment.
back(callee_m, m) == [callee_m EXCEPT !.local_environment = m.local_environment]

call_result(result, m) ==
    IF result.go THEN Ok(back(result.m, m), Nil)
    ELSE IF result.ok THEN Ok(back(result.m, m), result.ret.value)
    ELSE Err(back(result.m, m), result.err)

\* LoxFunction::call.  lox_function is the index of the closure in
\* m.functions; m is the calling context, whose global environment the
\* callee's context borrows.
\* The context of the callee: LoxFunction::call up to new_with_local_env.
local_interpreter(m, lox_function, arguments) ==
    LET f == m.functions[lox_function]
        environment0 ==
            IF f.closure.some THEN new_capture_env(f.closure.env, m.heap)
            ELSE [env |-> new, heap |-> m.heap]
        \* allow recursion
        environment1 == set_var(environment0.env, environment0.heap,
                                f.declaration.name, Function(lox_function))
        environment == bind_parameters(environment1, f.declaration.parameters,
                                       arguments, 1)
    IN  [m EXCEPT !.local_environment = SomeEnv(environment.env),
                  !.heap = environment.heap]

\* The native stack bounds the nesting of calls; MaxCallDepth stands for it.
LoxFunction_call(m, lox_function, arguments, depth) ==
    IF depth >= MaxCallDepth THEN Err(m, "stack overflow")
    ELSE call_result(execute_many(local_interpreter(m, lox_function, arguments),
                                  m.functions[lox_function].declaration.statements,
                                  depth + 1),
                     m)

\* visit_call's f.call(..) on the evaluated arguments.
call_function(arguments, lox_function, depth) ==
    IF arguments.ok
    THEN LoxFunction_call(arguments.m, lox_function, arguments.values, depth)
    ELSE Err(arguments.m, arguments.err)

\* visit_call from the match on callee.
is_function(callee) == callee.ok /\ callee.value.t = "Function"

declaration_of(callee) == callee.m.functions[callee.value.v].declaration

\* Mutant of arity_matches: the argument count is not compared.
arity_unchecked(callee, call) == is_function(callee)

arity_matches(callee, call) ==
    is_function(callee) /\ arity(declaration_of(callee)) = Len(call.arguments)

call_callee(callee, call, depth) ==
    CASE arity_matches(callee, call) ->
            call_function(
                evaluate_arguments([ok |-> TRUE, m |-> callee.m, err |-> "",
                                    values |-> <<>>],
                                   call.arguments, 1, depth),
                callee.value.v, depth)
      [] is_function(callee) /\ ~arity_matches(callee, call) ->
            Err(callee.m, "Function expected "
                    \o ToString(arity(declaration_of(callee)))
                    \o " but got " \o ToString(Len(call.arguments))
                    \o ", at line " \o ToString(call.line))
      [] callee.ok /\ ~is_function(callee) ->
            Err(callee.m, "Not a callable object at line " \o ToString(call.line))
      [] ~callee.ok -> callee

visit_call(m, call, depth) ==
    call_callee(evaluate_expr(m, call.callee, depth), call, depth)

\* Expr::accept
evaluate_expr(m, expr, depth) ==
    CASE expr.k = "Bool" -> Ok(m, Bool(expr.b))
      [] expr.k = "Str" -> Ok(m, Str(expr.s))
      [] expr.k = "Number" -> Ok(m, Number(expr.n))
      [] expr.k = "Binary" -> visit_binary(m, expr, depth)
      [] expr.k = "Grouping" -> evaluate_expr(m, expr.expr, depth)
      [] expr.k = "LogicalNot" -> visit_logical_not(m, expr.expr, depth)
      [] expr.k = "UnaryNegate" -> visit_unary_negate(m, expr.expr, depth)
      [] expr.k = "Variable" -> visit_variable(m, expr)
      [] expr.k = "Assignment" -> visit_assignment(m, expr, depth)
      [] expr.k = "Call" -> visit_call(m, expr, depth)
      [] expr.k = "Nil" -> Ok(m, Nil)

\* self.evaluate_expr(&expr)?; Ok(None)
discard(r) == IF r.ok THEN StmtOk(r.m, None) ELSE StmtErr(r.m, r.err)

visit_expr(m, expr, depth) == discard(evaluate_expr(m, expr, depth))

\* print!("{} ", value) for the i-th expression of a print statement, then on
\* to the next.
print_value(r, exprs, i, depth) ==
    IF r.ok
    THEN print_exprs([r.m EXCEPT !.out = Append(@, Display(r.m, r.value) \o " ")],
                     exprs, i + 1, depth)
    ELSE StmtErr(r.m, r.err)

\* The loop of visit_print from index i on, then println!("").
print_exprs(m, exprs, i, depth) ==
    IF i > Len(exprs) THEN StmtOk([m EXCEPT !.out = Append(@, "\n")], None)
    ELSE print_value(evaluate_expr(m, exprs[i], depth), exprs, i, depth)

visit_print(m, print, depth) == print_exprs(m, print.exprs, 1, depth)

\* visit_if from `let is_truthy` on.
if_branch(if_cond_result, if_ctx, depth) ==
    IF ~if_cond_result.ok THEN StmtErr(if_cond_result.m, if_cond_result.err)
    ELSE IF is_truthy(if_cond_result.value)
    THEN execute(if_cond_result.m, if_ctx.true_branch, depth)
    ELSE IF if_ctx.else_branch.some
    THEN execute(if_cond_result.m, if_ctx.else_branch.stmt, depth)
    ELSE StmtOk(if_cond_result.m, None)

visit_if(m, if_ctx, depth) ==
    if_branch(evaluate_expr(m, if_ctx.condition, depth), if_ctx, depth)

visit_block(m, block, depth) == execute_many(m, block.statements, depth)

\* visit_var from the if let on.
var_set(initializer, var) ==
    IF ~initializer.ok THEN StmtErr(initializer.m, initializer.err)
    ELSE IF initializer.m.local_environment.some
    THEN StmtOk(set_local(initializer.m, var.name, initializer.value), None)
    ELSE StmtOk(set_global(initializer.m, var.name, initializer.value), None)

visit_var(m, var, depth) == var_set(evaluate_expr(m, var.initializer, depth), var)

\* Mutant of while_body: a Some result of the body does not end the loop.
while_body_past_return(result, while_ctx, iters, depth) ==
    IF result.ok THEN while_loop(result.m, while_ctx, iters + 1, depth)
    ELSE result

\* The loop of visit_while after the body ran.
while_body(result, while_ctx, iters, depth) ==
    IF result.go THEN while_loop(result.m, while_ctx, iters + 1, depth)
    ELSE result

\* The loop of visit_while after the condition was evaluated; MaxLoopIters
\* bounds the iterations.
while_cond(cond_eval, while_ctx, iters, depth) ==
    CASE ~cond_eval.ok -> StmtErr(cond_eval.m, cond_eval.err)
      [] cond_eval.ok /\ ~is_truthy(cond_eval.value) -> StmtOk(cond_eval.m, None)
      [] cond_eval.ok /\ is_truthy(cond_eval.value) /\ iters >= MaxLoopIters ->
            StmtErr(cond_eval.m, "loop bound")
      [] cond_eval.ok /\ is_truthy(cond_eval.value) /\ iters < MaxLoopIters ->
            while_body(execute(cond_eval.m, while_ctx.body, depth),
                       while_ctx, iters, depth)

\* The loop of visit_while, iters iterations in.
while_loop(m, while_ctx, iters, depth) ==
    while_cond(evaluate_expr(m, while_ctx.condition, depth), while_ctx, iters, depth)

visit_while(m, while_ctx, depth) == while_loop(m, while_ctx, 0, depth)

\* Mutant of visit_function: inside a call the name is bound in the local
\* environment.
visit_function_local(m, function) ==
    LET lox_function == [declaration |-> function, closure |-> m.local_environment]
        m1 == [m EXCEPT !.functions = Append(@, lox_function)]
    IN  IF m.local_environment.some
        THEN StmtOk(set_local(m1, function.name, Function(Len(m1.functions))), None)
        ELSE StmtOk(set_global(m1, function.name, Function(Len(m1.functions))), None)

visit_function(m, function) ==
    LET lox_function == [declaration |-> function, closure |-> m.local_environment]
        m1 == [m EXCEPT !.functions = Append(@, lox_function)]
    IN  StmtOk(set_global(m1, function.name, Function(Len(m1.functions))), None)

\* return Ok(Some(value))
return_value(value) ==
    IF value.ok THEN StmtOk(value.m, Some(value.value))
    ELSE StmtErr(value.m, value.err)

visit_return(m, expr, depth) == return_value(evaluate_expr(m, expr, depth))

\* Stmt::accept
execute(m, stmt, depth) ==
    CASE stmt.k = "Expr" -> visit_expr(m, stmt.expr, depth)
      [] stmt.k = "Print" -> visit_print(m, stmt, depth)
      [] stmt.k = "If" -> visit_if(m, stmt, depth)
      [] stmt.k = "Block" -> visit_block(m, stmt, depth)
      [] stmt.k = "Var" -> visit_var(m, stmt, depth)
      [] stmt.k = "While" -> visit_while(m, stmt, depth)
      [] stmt.k = "Function" -> visit_function(m, stmt)
      [] stmt.k = "Return" -> visit_return(m, stmt.expr, depth)

\* execute_many after the first statement ran: a result that is an error
\* or Some ends the loop.
execute_rest(result, stmts, depth) ==
    IF result.go THEN execute_many(result.m, Tail(stmts), depth)
    ELSE result

execute_many(m, stmts, depth) ==
    IF Len(stmts) = 0 THEN StmtOk(m, None)
    ELSE execute_rest(execute(m, stmts[1], depth), stmts, depth)

interpret(m, stmts) == execute_many(m, stmts, 0)

(***************************************************************************)
(* The parser (parser.rs)                                                  *)
(*                                                                         *)
(* A Token with a payload (Number, Str, Identifier) carries it in value.   *)
(* A Parser is the token sequence and the position of the next token (the  *)
(* Peekable iterator).  A parse function takes the parser and returns the  *)
(* parser after it with the node it built, or the error.  As in the        *)
(* evaluator, a function that parses a part and goes on with the result is *)
(* split where it makes the call.                                          *)
(***************************************************************************)
NumberToken(value, line) == [token_type |-> "Number", line |-> line, value |-> value]
StrToken(value, line) == [token_type |-> "Str", line |-> line, value |-> value]
IdentifierToken(value, line) ==
    [token_type |-> "Identifier", line |-> line, value |-> value]

\* Token::to_string, used in error messages only.
to_string(token) == token.token_type

Parser(tokens) == [tokens |-> tokens, pos |-> 1]

\* self.iter.peek() and self.iter.next()
peek(p) ==
    IF p.pos <= Len(p.tokens) THEN [some |-> TRUE, token |-> p.tokens[p.pos]]
    ELSE [some |-> FALSE, token |-> Token("Eof", 0)]

next(p) == IF p.pos <= Len(p.tokens) THEN [p EXCEPT !.pos = @ + 1] ELSE p

check(p, token_type) == peek(p).some /\ peek(p).token.token_type = token_type

\* match_tokens is Some(peek(p).token), leaving the parser next(p), when this
\* holds, and None, leaving the parser p, when it does not.
match_tokens(p, token_types) == \E token_type \in token_types : check(p, token_type)

\* ExprResult and StmtResult: Ok(node) with the parser after it, or Err.
Parsed(p, node) == [ok |-> TRUE, p |-> p, node |-> node, err |-> ""]
ParseErr(p, e) == [ok |-> FALSE, p |-> p, node |-> ExprNil, err |-> e]

consume_token(p, token_type, error_message) ==
    IF check(p, token_type) THEN Parsed(next(p), ExprNil)
    ELSE IF peek(p).some
    THEN ParseErr(p, "Line " \o ToString(peek(p).token.line) \o " at '"
                        \o to_string(peek(p).token) \o "': " \o error_message)
    ELSE ParseErr(p, "At EOF: " \o error_message)

\* self.consume_token(..)? after a part r was parsed
then_consume(r, token_type, error_message) ==
    IF ~r.ok THEN r
    ELSE IF consume_token(r.p, token_type, error_message).ok
    THEN Parsed(next(r.p), r.node)
    ELSE consume_token(r.p, token_type, error_message)

RECURSIVE expression(_)
RECURSIVE unary(_)
RECURSIVE call_arguments(_, _)
RECURSIVE factor_loop(_)
RECURSIVE term_loop(_)
RECURSIVE statement(_)
RECURSIVE print_list(_, _)
RECURSIVE block_statements(_, _)
RECURSIVE parameters(_, _)
RECURSIVE parse_loop(_, _)

Parser_identifier(p, name, line) == Parsed(p, new_variable(name, line))

\* grouping after self.expression()?
grouping_close(expr) ==
    IF ~expr.ok THEN expr
    ELSE IF ~peek(expr.p).some THEN ParseErr(expr.p, "Expected ')' but found EOF")
    ELSE IF peek(expr.p).token.token_type = "RightParen"
    THEN Parsed(next(expr.p), new_grouping(expr.node))
    ELSE ParseErr(next(expr.p), "Expected ')' but found "
                     \o to_string(peek(expr.p).token) \o " at line "
                     \o ToString(peek(expr.p).token.line))

grouping(p) == grouping_close(expression(p))

primary(p) ==
    IF ~peek(p).some THEN ParseErr(p, "Expected primary expression, found EOF")
    ELSE CASE peek(p).token.token_type = "True" -> Parsed(next(p), ExprBool(TRUE))
           [] peek(p).token.token_type = "False" -> Parsed(next(p), ExprBool(FALSE))
           [] peek(p).token.token_type = "Nil" -> Parsed(next(p), ExprNil)
           [] peek(p).token.token_type = "Number" ->
                 Parsed(next(p), ExprNumber(peek(p).token.value))
           [] peek(p).token.token_type = "Str" ->
                 Parsed(next(p), ExprStr(peek(p).token.value))
           [] peek(p).token.token_type = "LeftParen" -> grouping(next(p))
           [] peek(p).token.token_type = "Identifier" ->
                 Parser_identifier(next(p), peek(p).token.value, peek(p).token.line)
           [] OTHER ->
                 ParseErr(next(p), "Expected primary expression, found "
                             \o to_string(peek(p).token) \o " at line "
                             \o ToString(peek(p).token.line))

\* A list of nodes being parsed: Ok(nodes) with the parser after it, or Err.
ParsedList(p, nodes) == [ok |-> TRUE, p |-> p, nodes |-> nodes, err |-> ""]
ParseListErr(p, e) == [ok |-> FALSE, p |-> p, nodes |-> <<>>, err |-> e]

\* args.push(Box::new(self.expression()?)) and the test for a Comma
push_call_argument(arg, args) ==
    IF ~arg.ok THEN ParseListErr(arg.p, arg.err)
    ELSE IF check(arg.p, "Comma")
    THEN call_arguments(next(arg.p), Append(args, arg.node))
    ELSE ParsedList(arg.p, Append(args, arg.node))

\* The loop of call over the arguments.
call_arguments(p, args) == push_call_argument(expression(p), args)

\* call after the loop: the closing parenthesis.
call_close(args, expr, left_param) ==
    IF ~args.ok THEN ParseErr(args.p, args.err)
    ELSE IF check(args.p, "RightParen")
    THEN Parsed(next(args.p), new_call(expr.node, left_param.line, args.nodes))
    ELSE consume_token(args.p, "RightParen",
                       "Expected ')' after function call arguments")

\* call after self.primary()?: one argument list, if a LeftParen follows.
call_rest(expr) ==
    IF ~expr.ok \/ ~check(expr.p, "LeftParen") THEN expr
    ELSE IF check(next(expr.p), "RightParen")
    THEN Parsed(next(next(expr.p)),
                new_call(expr.node, peek(expr.p).token.line, <<>>))
    ELSE call_close(call_arguments(next(expr.p), <<>>), expr, peek(expr.p).token)

call(p) == call_rest(primary(p))

unary_logical_not(expr) ==
    IF expr.ok THEN Parsed(expr.p, new_logical_not(expr.node)) ELSE expr

unary_negated(expr) ==
    IF expr.ok THEN Parsed(expr.p, new_unary_negate(expr.node)) ELSE expr

unary(p) ==
    IF check(p, "Bang") THEN unary_logical_not(unary(next(p)))
    ELSE IF check(p, "Minus") THEN unary_negated(unary(next(p)))
    ELSE call(p)

\* expr::new_binary(expr, operator, <right operand>?)
binary_join(expr, operator, right) ==
    IF right.ok THEN Parsed(right.p, new_binary(expr.node, operator, right.node))
    ELSE right

\* The while loop of factor; expr is the expression so far.
factor_loop(expr) ==
    IF expr.ok /\ match_tokens(expr.p, {"Slash", "Star"})
    THEN factor_loop(binary_join(expr, peek(expr.p).token, unary(next(expr.p))))
    ELSE expr

factor(p) == factor_loop(unary(p))

\* Mutant of term_loop: one operator at most, as in comparison.
term_once(expr) ==
    IF expr.ok /\ match_tokens(expr.p, {"Minus", "Plus"})
    THEN binary_join(expr, peek(expr.p).token, factor(next(expr.p)))
    ELSE expr

\* The while loop of term; expr is the expression so far.
term_loop(expr) ==
    IF expr.ok /\ match_tokens(expr.p, {"Minus", "Plus"})
    THEN term_loop(binary_join(expr, peek(expr.p).token, factor(next(expr.p))))
    ELSE expr

term(p) == term_loop(factor(p))

comparison_rest(expr) ==
    IF expr.ok /\ match_tokens(expr.p, {"Less", "LessEqual", "Greater", "GreaterEqual"})
    THEN binary_join(expr, peek(expr.p).token, term(next(expr.p)))
    ELSE expr

comparison(p) == comparison_rest(term(p))

equality_rest(expr) ==
    IF expr.ok /\ match_tokens(expr.p, {"EqualEqual", "BangEqual"})
    THEN binary_join(expr, peek(expr.p).token, comparison(next(expr.p)))
    ELSE expr

equality(p) == equality_rest(comparison(p))

\* logical_and after self.equality()?: the right operand is self.comparison()
logical_and_rest(expr) ==
    IF expr.ok /\ match_tokens(expr.p, {"And"})
    THEN binary_join(expr, peek(expr.p).token, comparison(next(expr.p)))
    ELSE expr

logical_and(p) == logical_and_rest(equality(p))

\* logical_or after self.logical_and()?: the right operand is self.comparison()
logical_or_rest(expr) ==
    IF expr.ok /\ match_tokens(expr.p, {"Or"})
    THEN binary_join(expr, peek(expr.p).token, comparison(next(expr.p)))
    ELSE expr

logical_or(p) == logical_or_rest(logical_and(p))

assignment_value(variable, value) ==
    IF value.ok
    THEN Parsed(value.p, new_assignment(variable.name, variable.line, value.node))
    ELSE value

assignment_rest(expr) ==
    IF ~expr.ok \/ ~check(expr.p, "Equal") THEN expr
    ELSE IF expr.node.k = "Variable"
    THEN assignment_value(expr.node, expression(next(expr.p)))
    ELSE ParseErr(next(expr.p), "Invalid assignment target")

assignment(p) == assignment_rest(logical_or(p))

expression(p) == assignment(p)

\* ---- statements ----
as_return(expr) == IF expr.ok THEN Parsed(expr.p, new_return(expr.node)) ELSE expr

return_stmt(p) ==
    as_return(then_consume(expression(p), "SemiColon", "Expected ';' after expression"))

as_expr(expr) == IF expr.ok THEN Parsed(expr.p, new_expr(expr.node)) ELSE expr

expr_stmt(p) ==
    as_expr(then_consume(expression(p), "SemiColon", "Expected ';' after expression"))

if_stmt_else(condition, true_branch, else_branch) ==
    IF else_branch.ok
    THEN Parsed(else_branch.p, new_if(condition.node, true_branch.node,
                                      SomeStmt(else_branch.node)))
    ELSE else_branch

if_stmt_true(condition, true_branch) ==
    IF ~true_branch.ok THEN true_branch
    ELSE IF check(true_branch.p, "Else")
    THEN if_stmt_else(condition, true_branch, statement(next(true_branch.p)))
    ELSE Parsed(true_branch.p, new_if(condition.node, true_branch.node, NoStmt))

if_stmt_condition(condition) ==
    IF condition.ok THEN if_stmt_true(condition, statement(condition.p))
    ELSE condition

if_stmt(p) ==
    IF check(p, "LeftParen")
    THEN if_stmt_condition(then_consume(expression(next(p)), "RightParen",
                                        "Expected ')' after if condition"))
    ELSE consume_token(p, "LeftParen", "Expected '(' after if")

\* statements.push(self.statement()?) in a block or a function body
push_statement(stmt, statements) ==
    IF stmt.ok THEN block_statements(stmt.p, Append(statements, stmt.node))
    ELSE ParseListErr(stmt.p, stmt.err)

\* while self.match_tokens(&[RightBrace]).is_none() { statements.push(..) }
block_statements(p, statements) ==
    IF check(p, "RightBrace") THEN ParsedList(next(p), statements)
    ELSE push_statement(statement(p), statements)

as_block(statements) ==
    IF statements.ok THEN Parsed(statements.p, new_block(statements.nodes))
    ELSE ParseErr(statements.p, statements.err)

block_stmt(p) == as_block(block_statements(p, <<>>))

push_print_expr(expr, exprs) ==
    IF ~expr.ok THEN ParseListErr(expr.p, expr.err)
    ELSE IF check(expr.p, "Comma")
    THEN print_list(next(expr.p), Append(exprs, expr.node))
    ELSE ParsedList(expr.p, Append(exprs, expr.node))

\* The expressions of a print statement.
print_list(p, exprs) == push_print_expr(expression(p), exprs)

print_stmt_end(exprs) ==
    IF ~exprs.ok THEN ParseErr(exprs.p, exprs.err)
    ELSE IF check(exprs.p, "SemiColon")
    THEN Parsed(next(exprs.p), new_print(exprs.nodes))
    ELSE consume_token(exprs.p, "SemiColon", "Expected ';' after print statement")

print_stmt(p) == print_stmt_end(print_list(p, <<>>))

var_stmt_end(name, expr) ==
    IF expr.ok THEN Parsed(expr.p, new_var(name.value, name.line, expr.node))
    ELSE expr

var_stmt(p) ==
    IF ~check(p, "Identifier") THEN ParseErr(next(p), "Expected identifier after 'var'")
    ELSE IF ~check(next(p), "Equal")
    THEN consume_token(next(p), "Equal", "Expected '=' after var identifier")
    ELSE var_stmt_end(peek(p).token,
                      then_consume(expression(next(next(p))), "SemiColon",
                                   "Expected ';' after print statement"))

while_stmt_body(condition, body) ==
    IF body.ok THEN Parsed(body.p, new_while(condition.node, body.node))
    ELSE body

while_stmt_condition(condition) ==
    IF condition.ok THEN while_stmt_body(condition, statement(condition.p))
    ELSE condition

while_stmt(p) ==
    IF check(p, "LeftParen")
    THEN while_stmt_condition(then_consume(expression(next(p)), "RightParen",
                                           "Expected ')' after while statement"))
    ELSE consume_token(p, "LeftParen", "Expected '(' after while statement")

\* Option<Stmt> and Option<Expr> of for_stmt
NoExpr == [some |-> FALSE]
SomeExpr(expr) == [some |-> TRUE, expr |-> expr]

\* Mutant of for_desugar: the While is wrapped in a Block also when the
\* initializer is omitted.
for_desugar_always_block(initializer, condition, loop_eval, body) ==
    LET for_body == IF loop_eval.some
                    THEN new_block(<<body, new_expr(loop_eval.expr)>>)
                    ELSE body
        while_stmt_ == new_while(condition, for_body)
    IN  IF initializer.some THEN new_block(<<initializer.stmt, while_stmt_>>)
        ELSE new_block(<<while_stmt_>>)

\* for_stmt from `if let Some(le) = loop_eval` on: the statement a for
\* statement stands for.
for_desugar(initializer, condition, loop_eval, body) ==
    LET for_body == IF loop_eval.some
                    THEN new_block(<<body, new_expr(loop_eval.expr)>>)
                    ELSE body
        while_stmt_ == new_while(condition, for_body)
    IN  IF initializer.some THEN new_block(<<initializer.stmt, while_stmt_>>)
        ELSE while_stmt_

for_stmt_body(initializer, condition, loop_eval, body) ==
    IF body.ok
    THEN Parsed(body.p, for_desugar(initializer, condition.node, loop_eval, body.node))
    ELSE body

for_stmt_with_eval(initializer, condition, loop_eval) ==
    IF loop_eval.ok
    THEN for_stmt_body(initializer, condition, SomeExpr(loop_eval.node),
                       statement(loop_eval.p))
    ELSE loop_eval

for_stmt_loop_eval(initializer, condition) ==
    IF ~condition.ok THEN condition
    ELSE IF check(condition.p, "RightParen")
    THEN for_stmt_body(initializer, condition, NoExpr, statement(next(condition.p)))
    ELSE for_stmt_with_eval(initializer, condition,
                            then_consume(expression(condition.p), "RightParen",
                                         "Expected ')' after for loop expr"))

for_stmt_condition(initializer, p) ==
    IF check(p, "SemiColon")
    THEN for_stmt_loop_eval(initializer, Parsed(next(p), ExprBool(TRUE)))
    ELSE for_stmt_loop_eval(initializer,
                            then_consume(expression(p), "SemiColon",
                                         "Expected ';' after for condition"))

for_stmt_initializer(initializer) ==
    IF initializer.ok
    THEN for_stmt_condition(SomeStmt(initializer.node), initializer.p)
    ELSE initializer

for_stmt(p) ==
    IF ~check(p, "LeftParen")
    THEN consume_token(p, "LeftParen", "Expected '(' after for statement")
    ELSE IF check(next(p), "SemiColon")
    THEN for_stmt_condition(NoStmt, next(next(p)))
    ELSE for_stmt_initializer(statement(next(p)))

\* The loop of function_stmt over the parameters.
parameters(p, names) ==
    IF ~peek(p).some
    THEN ParseListErr(p, "Expected identifer after 'fun', found EOF")
    ELSE IF peek(p).token.token_type # "Identifier"
    THEN ParseListErr(next(p), "Expected identifier after 'fun', found "
                                  \o to_string(peek(p).token))
    ELSE IF check(next(p), "Comma")
    THEN parameters(next(next(p)), Append(names, peek(p).token.value))
    ELSE IF check(next(p), "RightParen")
    THEN ParsedList(next(next(p)), Append(names, peek(p).token.value))
    ELSE ParseListErr(next(p), consume_token(next(p), "RightParen",
                         "Expected ')' after function parameters").err)

function_stmt_end(name, names, statements) ==
    IF statements.ok
    THEN Parsed(statements.p,
                new_function(name.value, names.nodes, statements.nodes, name.line))
    ELSE ParseErr(statements.p, statements.err)

function_stmt_body(name, names) ==
    IF ~names.ok THEN ParseErr(names.p, names.err)
    ELSE IF check(names.p, "LeftBrace")
    THEN function_stmt_end(name, names, block_statements(next(names.p), <<>>))
    ELSE consume_token(names.p, "LeftBrace", "Expected '{' after function parameters")

function_stmt(p) ==
    IF ~peek(p).some THEN ParseErr(p, "Expected identifer after 'fun', found EOF")
    ELSE IF peek(p).token.token_type # "Identifier"
    THEN ParseErr(next(p), "Expected identifier after 'fun', found "
                              \o to_string(peek(p).token))
    ELSE IF ~check(next(p), "LeftParen")
    THEN consume_token(next(p), "LeftParen", "Expected '(' after function name")
    ELSE IF check(next(next(p)), "RightParen")
    THEN function_stmt_body(peek(p).token, ParsedList(next(next(next(p))), <<>>))
    ELSE function_stmt_body(peek(p).token, parameters(next(next(p)), <<>>))

statement(p) ==
    CASE check(p, "If") -> if_stmt(next(p))
      [] check(p, "LeftBrace") -> block_stmt(next(p))
      [] check(p, "Print") -> print_stmt(next(p))
      [] check(p, "Var") -> var_stmt(next(p))
      [] check(p, "While") -> while_stmt(next(p))
      [] check(p, "For") -> for_stmt(next(p))
      [] check(p, "Fun") -> function_stmt(next(p))
      [] check(p, "Return") -> return_stmt(next(p))
      [] OTHER -> expr_stmt(p)

\* Result<Vec<Stmt>, Vec<String>>
push_parsed(stmt, stmts) ==
    IF stmt.ok THEN parse_loop(stmt.p, Append(stmts, stmt.node))
    ELSE [ok |-> FALSE, stmts |-> <<>>, errors |-> <<stmt.err>>]

\* The loop of parse: statements up to the Eof token or the end of the tokens.
parse_loop(p, stmts) ==
    IF ~peek(p).some \/ peek(p).token.token_type = "Eof"
    THEN [ok |-> TRUE, stmts |-> stmts, errors |-> <<>>]
    ELSE push_parsed(statement(p), stmts)

parse(tokens) == parse_loop(Parser(tokens), <<>>)

(***************************************************************************)
(* Spec: the prompt loop (lox.rs run_prompt) runs one line after another   *)
(* against the same interpreter; an error ends the line, not the session.  *)
(* A line is the statement list the parser hands over.                     *)
(***************************************************************************)
V(name) == new_variable(name, 1)
CallStmt(name, arguments) == new_expr(new_call(V(name), 1, arguments))
Plus(left, right) == new_binary(left, Token("Plus", 1), right)
Minus(left, right) == new_binary(left, Token("Minus", 1), right)
Star(left, right) == new_binary(left, Token("Star", 1), right)
LessEqual(left, right) == new_binary(left, Token("LessEqual", 1), right)

\* var a = v1; { var a = v2; print a; } print a;
Shadow(v1, v2) ==
    << new_var("a", 1, ExprNumber(v1)),
       new_block(<< new_var("a", 1, ExprNumber(v2)), new_print(<<V("a")>>) >>),
       new_print(<<V("a")>>) >>

\* fun make() { var c = c0; fun inc() { c = c + 1; print c; } return inc; }
\* var f = make(); f(); ... f();     (k calls)
Counter(c0, k) ==
    << new_function("make", <<>>,
          << new_var("c", 1, ExprNumber(c0)),
             new_function("inc", <<>>,
                << new_expr(new_assignment("c", 1, Plus(V("c"), ExprNumber(1)))),
                   new_print(<<V("c")>>) >>, 1),
             new_return(V("inc")) >>, 1),
       new_var("f", 1, new_call(V("make"), 1, <<>>)) >>
    \o [i \in 1..k |-> CallStmt("f", <<>>)]

\* f();
CallF == << CallStmt("f", <<>>) >>

\* fun outer() { var x = x0; fun inner(x) { return x; } inner(arg); return x; }
\* print outer();
Param(x0, arg) ==
    << new_function("outer", <<>>,
          << new_var("x", 1, ExprNumber(x0)),
             new_function("inner", <<"x">>, << new_return(V("x")) >>, 1),
             CallStmt("inner", <<ExprNumber(arg)>>),
             new_return(V("x")) >>, 1),
       new_print(<<new_call(V("outer"), 1, <<>>)>>) >>

\* fun f() { fun f() { return 0; } return 1; }  print f(); print f();
ReuseName ==
    << new_function("f", <<>>,
          << new_function("f", <<>>, << new_return(ExprNumber(0)) >>, 1),
             new_return(ExprNumber(1)) >>, 1),
       new_print(<<new_call(V("f"), 1, <<>>)>>),
       new_print(<<new_call(V("f"), 1, <<>>)>>) >>

\* fun fact(n) { if (n <= 1) return 1; return <product>; }
\* with the product n * fact(n - 1) or fact(n - 1) * n
FactDecl(call_first) ==
    new_function("fact", <<"n">>,
       << new_if(LessEqual(V("n"), ExprNumber(1)), new_return(ExprNumber(1)), NoStmt),
          new_return(IF call_first
                     THEN Star(new_call(V("fact"), 1, <<Minus(V("n"), ExprNumber(1))>>),
                               V("n"))
                     ELSE Star(V("n"),
                               new_call(V("fact"), 1, <<Minus(V("n"), ExprNumber(1))>>)))
       >>, 1)

\* <FactDecl>  print fact(k);
Fact(k, call_first) ==
    << FactDecl(call_first), new_print(<<new_call(V("fact"), 1, <<ExprNumber(k)>>)>>) >>

\* fun outer(n) { <FactDecl>  return fact(n); }  print outer(k);
FactNested(k, call_first) ==
    << new_function("outer", <<"n">>,
          << FactDecl(call_first),
             new_return(new_call(V("fact"), 1, <<V("n")>>)) >>, 1),
       new_print(<<new_call(V("outer"), 1, <<ExprNumber(k)>>)>>) >>

\* var x = 0; print <left> <op> (x = 7); print x;     (op is And or Or)
LeftOperands == <<ExprBool(FALSE), ExprBool(TRUE), ExprNumber(0), ExprNumber(2), ExprNil>>

AndOr(op, i) ==
    << new_var("x", 1, ExprNumber(0)),
       new_print(<<new_binary(LeftOperands[i], Token(op, 1),
                              new_grouping(new_assignment("x", 1, ExprNumber(7))))>>),
       new_print(<<V("x")>>) >>

\* var x = 0; print (x = x + 1) <op> 1; print x;      (side = 0)
\* var x = 0; print <k> <op> (x = x + 1); print x;    (side = 1)
\* with k = 1 for And and Plus, k = 0 for Or: the operand that counts is
\* one that short-circuit evaluation evaluates too.
OnceOps == <<"And", "Or", "Plus">>
OnceLeft == <<ExprNumber(1), ExprNumber(0), ExprNumber(1)>>

Once(side, i) ==
    << new_var("x", 1, ExprNumber(0)),
       new_print(<<IF side = 0
                   THEN new_binary(new_grouping(new_assignment("x", 1,
                                                   Plus(V("x"), ExprNumber(1)))),
                                   Token(OnceOps[i], 1), ExprNumber(1))
                   ELSE new_binary(OnceLeft[i], Token(OnceOps[i], 1),
                                   new_grouping(new_assignment("x", 1,
                                                   Plus(V("x"), ExprNumber(1)))))>>),
       new_print(<<V("x")>>) >>

\* var g = 5; fun outer() { var x = 1; fun g() { return 2; } return x; }
\* print outer(); print g; print g();
\* with the declaration of g in a block of its own for in_block = 1.
DeclareG == new_function("g", <<>>, << new_return(ExprNumber(2)) >>, 1)

DeclareInside(in_block) ==
    << new_var("g", 1, ExprNumber(5)),
       new_function("outer", <<>>,
          << new_var("x", 1, ExprNumber(1)),
             IF in_block = 1 THEN new_block(<<DeclareG>>) ELSE DeclareG,
             new_return(V("x")) >>, 1),
       new_print(<<new_call(V("outer"), 1, <<>>)>>),
       new_print(<<V("g")>>),
       new_print(<<new_call(V("g"), 1, <<>>)>>) >>

\* fun f(n) { var i = 0;
\*            while (i < 3) { i = i + 1;
\*                            if (i == n) { print i; return i * 10; print 99; }
\*                            print -i; }
\*            print 98; }
\* print f(k);
EarlyReturn(k) ==
    << new_function("f", <<"n">>,
          << new_var("i", 1, ExprNumber(0)),
             new_while(new_binary(V("i"), Token("Less", 1), ExprNumber(3)),
                new_block(
                   << new_expr(new_assignment("i", 1, Plus(V("i"), ExprNumber(1)))),
                      new_if(new_binary(V("i"), Token("EqualEqual", 1), V("n")),
                             new_block(<< new_print(<<V("i")>>),
                                          new_return(Star(V("i"), ExprNumber(10))),
                                          new_print(<<ExprNumber(99)>>) >>),
                             NoStmt),
                      new_print(<<new_unary_negate(V("i"))>>) >>)),
             new_print(<<ExprNumber(98)>>) >>, 1),
       new_print(<<new_call(V("f"), 1, <<ExprNumber(k)>>)>>) >>

\* var x = 0; fun f(p1, .., pp) { print 1; return 0; }
ArityDecl(p) ==
    << new_var("x", 1, ExprNumber(0)),
       new_function("f", [i \in 1..p |-> "p" \o ToString(i)],
          << new_print(<<ExprNumber(1)>>), new_return(ExprNumber(0)) >>, 2) >>

\* <ArityDecl(p)>  f(x = x + 1, .., x = x + 1);     (a arguments, on line 3)
Arity(p, a) ==
    ArityDecl(p)
    \o << new_expr(new_call(V("f"), 3,
             [i \in 1..a |-> new_assignment("x", 3, Plus(V("x"), ExprNumber(1)))])) >>

\* var x = 0; u = (x = 5);           (u is bound nowhere; inside = 0)
\* var x = 0; fun g() { u = (x = 5); } g();            (inside = 1)
AssignUndefined(inside) ==
    LET assign_u == new_expr(new_assignment("u", 1,
                         new_grouping(new_assignment("x", 1, ExprNumber(5)))))
    IN  << new_var("x", 1, ExprNumber(0)) >>
        \o (IF inside = 1
            THEN << new_function("g", <<>>, <<assign_u>>, 1), CallStmt("g", <<>>) >>
            ELSE <<assign_u>>)

\* var a = 1; var b = 1;
\* fun g() { var a = 2; print a = 3; print b = 4; print a; }
\* g(); print a; print b;
AssignBound ==
    << new_var("a", 1, ExprNumber(1)),
       new_var("b", 1, ExprNumber(1)),
       new_function("g", <<>>,
          << new_var("a", 1, ExprNumber(2)),
             new_print(<<new_assignment("a", 1, ExprNumber(3))>>),
             new_print(<<new_assignment("b", 1, ExprNumber(4))>>),
             new_print(<<V("a")>>) >>, 1),
       CallStmt("g", <<>>),
       new_print(<<V("a")>>),
       new_print(<<V("b")>>) >>

\* for (var i = 0; i < 3; i = i + 1) print i;  print i;
\* after  var i = 7;  when outer = 1.  The statements are what parse makes of
\* the tokens.
ForLoopTokens(outer) ==
    (IF outer = 1
     THEN <<Token("Var", 1), IdentifierToken("i", 1), Token("Equal", 1),
            NumberToken(7, 1), Token("SemiColon", 1)>>
     ELSE <<>>)
    \o <<Token("For", 1), Token("LeftParen", 1), Token("Var", 1)>>
    \o <<IdentifierToken("i", 1), Token("Equal", 1), NumberToken(0, 1),
         Token("SemiColon", 1)>>
    \o <<IdentifierToken("i", 1), Token("Less", 1), NumberToken(3, 1),
         Token("SemiColon", 1)>>
    \o <<IdentifierToken("i", 1), Token("Equal", 1), IdentifierToken("i", 1),
         Token("Plus", 1), NumberToken(1, 1), Token("RightParen", 1)>>
    \o <<Token("Print", 1), IdentifierToken("i", 1), Token("SemiColon", 1)>>
    \o <<Token("Print", 1), IdentifierToken("i", 1), Token("SemiColon", 1)>>
    \o <<Token("Eof", 1)>>

ForLoop(outer) == parse(ForLoopTokens(outer)).stmts

ReturnArgs == 0..3      \* 0: the loop of f never returns
ArityCounts == 0..2     \* parameters declared, arguments supplied

ShadowValues == {1, 2}
CounterInits == {0, 5}
ParamValues == {1, 5}
FactArgs == 0..5        \* arguments of the top-level factorial
NestedArgs == 0..3      \* arguments of the nested factorial
Order == {0, 1}         \* 1: fact(n - 1) * n, 0: n * fact(n - 1)

Lines ==
    {[id |-> <<"Shadow", v1, v2>>, stmts |-> Shadow(v1, v2)] :
        v1 \in ShadowValues, v2 \in ShadowValues}
    \cup {[id |-> <<"Counter", c0, k>>, stmts |-> Counter(c0, k)] :
        c0 \in CounterInits, k \in 1..MaxCalls}
    \cup {[id |-> <<"CallF", 0, 0>>, stmts |-> CallF]}
    \cup {[id |-> <<"Param", x0, arg>>, stmts |-> Param(x0, arg)] :
        x0 \in ParamValues, arg \in ParamValues}
    \cup {[id |-> <<"ReuseName", 0, 0>>, stmts |-> ReuseName]}
    \cup {[id |-> <<"Fact", n, 1>>, stmts |-> Fact(n, TRUE)] : n \in FactArgs}
    \cup {[id |-> <<"FactNested", n, o>>, stmts |-> FactNested(n, o = 1)] :
        n \in NestedArgs, o \in Order}
    \cup {[id |-> <<"And", i, 0>>, stmts |-> AndOr("And", i)] :
        i \in 1..Len(LeftOperands)}
    \cup {[id |-> <<"Or", i, 0>>, stmts |-> AndOr("Or", i)] :
        i \in 1..Len(LeftOperands)}
    \cup {[id |-> <<"EarlyReturn", k, 0>>, stmts |-> EarlyReturn(k)] : k \in ReturnArgs}
    \cup {[id |-> <<"Arity", p, a>>, stmts |-> Arity(p, a)] :
        p \in ArityCounts, a \in ArityCounts}
    \cup {[id |-> <<"AssignUndefined", inside, 0>>, stmts |-> AssignUndefined(inside)] :
        inside \in {0, 1}}
    \cup {[id |-> <<"AssignBound", 0, 0>>, stmts |-> AssignBound]}
    \cup {[id |-> <<"ForLoop", outer, 0>>, stmts |-> ForLoop(outer)] : outer \in {0, 1}}
    \cup {[id |-> <<"Once", side, i>>, stmts |-> Once(side, i)] :
        side \in {0, 1}, i \in 1..Len(OnceOps)}
    \cup {[id |-> <<"DeclareInside", in_block, 0>>, stmts |-> DeclareInside(in_block)] :
        in_block \in {0, 1}}

Init ==
    /\ heap = <<>>
    /\ global_environment = new
    /\ functions = <<>>
    /\ output = <<>>
    /\ error = ""
    /\ last_line = NoLine
    /\ prev_line = NoLine
    /\ nlines = 0
    /\ input_tokens = <<>>
    /\ parse_case = NoCase
    /\ parsed = NotParsed
    /\ scan_source = <<>>
    /\ scan_case = NoTokens
    /\ scanned = NotScanned
    /\ scanner = NoScanner
    /\ resolve_case = NoDeclaration
    /\ resolved = NotResolved
    /\ activation = NotCalled
    /\ envs = [id \in EnvIds |-> new]
    /\ captured = FALSE
    /\ marks = <<>>
    /\ proper = TRUE
    /\ created = {}
    /\ cap_values = <<>>
    /\ only_set = FALSE
    /\ last_set = NoSet

\* What a line leaves behind: r is the result of interpreting it.
Ran(r) ==
    /\ global_environment' = r.m.global_environment
    /\ heap' = r.m.heap
    /\ functions' = r.m.functions
    /\ output' = r.m.out
    /\ error' = r.err

RunLine(line) ==
    /\ nlines < MaxLines
    /\ Ran(interpret([global_environment |-> global_environment,
                      local_environment |-> NoEnv,
                      heap |-> heap,
                      functions |-> functions,
                      out |-> <<>>],
                     line.stmts))
    /\ prev_line' = last_line
    /\ last_line' = line.id
    /\ nlines' = nlines + 1
    /\ UNCHANGED <<envVars, parseVars, scanVars, resolveVars>>

Next == \E line \in Lines : RunLine(line)

Spec == Init /\ [][Next]_vars

(***************************************************************************)
(* SpecParse: parse applied to token sequences drawn from four families:   *)
(*   arith   1 <op> 2 <op> .. ;        over + - * /                        *)
(*   logic   a <op> b <op> c ;         over or, and, ==                    *)
(*   calls   f <argument list> .. ;    each list () or (1)                 *)
(*   for     for (<init>; <cond>; <incr>) <body>                           *)
(* parse_case names the family and the choices made (its shape).           *)
(***************************************************************************)
MaxChain == 4           \* operators in an arithmetic chain
MaxLogic == 2           \* operators in a logical chain
MaxArgLists == 2        \* consecutive argument lists of a call

ArithOps == {"Plus", "Minus", "Star", "Slash"}
LogicOps == {"Or", "And", "EqualEqual"}
ArgLists == {"Empty", "One"}
LogicNames == <<"a", "b", "c", "d">>

Shapes(S, lo, hi) == UNION {[1..k -> S] : k \in lo..hi}

ForShapes ==
    {<<init, cond, incr, body>> :
        init \in {"None", "Var", "Expr"}, cond \in {"None", "Less"},
        incr \in {"None", "Assign"}, body \in {"Print", "Block"}}

EndOfLine == <<Token("SemiColon", 1), Token("Eof", 1)>>

RECURSIVE Flatten(_)
Flatten(seqs) == IF seqs = <<>> THEN <<>> ELSE Head(seqs) \o Flatten(Tail(seqs))

ArithTokens(shape) ==
    <<NumberToken(1, 1)>>
    \o Flatten([i \in 1..Len(shape) |-> <<Token(shape[i], 1), NumberToken(i + 1, 1)>>])
    \o EndOfLine

LogicTokens(shape) ==
    <<IdentifierToken(LogicNames[1], 1)>>
    \o Flatten([i \in 1..Len(shape) |->
                  <<Token(shape[i], 1), IdentifierToken(LogicNames[i + 1], 1)>>])
    \o EndOfLine

CallsTokens(shape) ==
    <<IdentifierToken("f", 1)>>
    \o Flatten([i \in 1..Len(shape) |->
                  <<Token("LeftParen", 1)>>
                  \o (IF shape[i] = "One" THEN <<NumberToken(1, 1)>> ELSE <<>>)
                  \o <<Token("RightParen", 1)>>])
    \o EndOfLine

\* i = 0    i < 3    i = i + 1    print i;
InitTokens == <<IdentifierToken("i", 1), Token("Equal", 1), NumberToken(0, 1)>>
CondTokens == <<IdentifierToken("i", 1), Token("Less", 1), NumberToken(3, 1)>>
IncrTokens ==
    <<IdentifierToken("i", 1), Token("Equal", 1), IdentifierToken("i", 1),
      Token("Plus", 1), NumberToken(1, 1)>>
PrintTokens == <<Token("Print", 1), IdentifierToken("i", 1), Token("SemiColon", 1)>>

ForTokens(shape) ==
    <<Token("For", 1), Token("LeftParen", 1)>>
    \o (CASE shape[1] = "Var" -> <<Token("Var", 1)>> \o InitTokens
          [] shape[1] = "Expr" -> InitTokens
          [] shape[1] = "None" -> <<>>)
    \o <<Token("SemiColon", 1)>>
    \o (IF shape[2] = "Less" THEN CondTokens ELSE <<>>)
    \o <<Token("SemiColon", 1)>>
    \o (IF shape[3] = "Assign" THEN IncrTokens ELSE <<>>)
    \o <<Token("RightParen", 1)>>
    \o (IF shape[4] = "Block"
        THEN <<Token("LeftBrace", 1)>> \o PrintTokens \o <<Token("RightBrace", 1)>>
        ELSE PrintTokens)
    \o <<Token("Eof", 1)>>

ParseCases ==
    {[kind |-> "arith", shape |-> shape] : shape \in Shapes(ArithOps, 0, MaxChain)}
    \cup {[kind |-> "logic", shape |-> shape] : shape \in Shapes(LogicOps, 1, MaxLogic)}
    \cup {[kind |-> "calls", shape |-> shape] : shape \in Shapes(ArgLists, 0, MaxArgLists)}
    \cup {[kind |-> "for", shape |-> shape] : shape \in ForShapes}

TokensOf(case) ==
    CASE case.kind = "arith" -> ArithTokens(case.shape)
      [] case.kind = "logic" -> LogicTokens(case.shape)
      [] case.kind = "calls" -> CallsTokens(case.shape)
      [] case.kind = "for" -> ForTokens(case.shape)

InitParse ==
    /\ heap = <<>>
    /\ global_environment = new
    /\ functions = <<>>
    /\ output = <<>>
    /\ error = ""
    /\ last_line = NoLine
    /\ prev_line = NoLine
    /\ nlines = 0
    /\ envs = [id \in EnvIds |-> new]
    /\ captured = FALSE
    /\ marks = <<>>
    /\ proper = TRUE
    /\ created = {}
    /\ cap_values = <<>>
    /\ only_set = FALSE
    /\ last_set = NoSet
    /\ parse_case \in ParseCases
    /\ input_tokens = TokensOf(parse_case)
    /\ parsed = NotParsed
    /\ scan_source = <<>>
    /\ scan_case = NoTokens
    /\ scanned = NotScanned
    /\ scanner = NoScanner
    /\ resolve_case = NoDeclaration
    /\ resolved = NotResolved
    /\ activation = NotCalled

Parse ==
    /\ ~parsed.done
    /\ parsed' = [done |-> TRUE, ok |-> parse(input_tokens).ok,
                  stmts |-> parse(input_tokens).stmts,
                  errors |-> parse(input_tokens).errors]
    /\ UNCHANGED <<input_tokens, parse_case, heap, envVars, interpVars, scanVars, resolveVars>>

NextParse == Parse

SpecParse == InitParse /\ [][NextParse]_vars

(***************************************************************************)
(* The scanner (scanner.rs)                                                *)
(*                                                                         *)
(* A source is a sequence of one-character strings.  A Scanner is a record *)
(* sc; current is the pair (index, char) of the Rust struct, with the      *)
(* indexes counted from 1, and eof is the pair one past the last index.    *)
(***************************************************************************)
NulChar == "NUL"
is_whitespace == {" ", "\t", "\r", "\n", "\f"}
is_ascii_digit == {"0", "1", "2", "3", "4", "5", "6", "7", "8", "9"}
is_ascii_alphabetic ==
    {"a", "b", "c", "d", "e", "f", "g", "h", "i", "j", "k", "l", "m",
     "n", "o", "p", "q", "r", "s", "t", "u", "v", "w", "x", "y", "z",
     "A", "B", "C", "D", "E", "F", "G", "H", "I", "J", "K", "L", "M",
     "N", "O", "P", "Q", "R", "S", "T", "U", "V", "W", "X", "Y", "Z"}

\* The closures given to advance_while, by name.
predicate(name, c) ==
    CASE name = "not_newline" -> c # "\n"
      [] name = "not_quote" -> c # "\""
      [] name = "is_ascii_digit" -> c \in is_ascii_digit
      [] name = "is_alphanumeric_or_underscore" ->
            c \in is_ascii_alphabetic \cup is_ascii_digit \cup {"_"}

eof(source) == [index |-> Len(source) + 1, char |-> NulChar]

\* self.chars.next() when the character at index i is the next one
chars_next(source, i) ==
    IF i <= Len(source) THEN [index |-> i, char |-> source[i]] ELSE eof(source)

Scanner(source) ==
    [source |-> source, current |-> chars_next(source, 1), line |-> 1,
     tokens |-> <<>>, errors |-> <<>>]

KEYWORDS ==
    [word \in {"and", "class", "else", "false", "fun", "for", "if", "nil", "or",
               "print", "return", "super", "this", "true", "var", "while"} |->
        CASE word = "and" -> "And" [] word = "class" -> "Class"
          [] word = "else" -> "Else" [] word = "false" -> "False"
          [] word = "fun" -> "Fun" [] word = "for" -> "For"
          [] word = "if" -> "If" [] word = "nil" -> "Nil"
          [] word = "or" -> "Or" [] word = "print" -> "Print"
          [] word = "return" -> "Return" [] word = "super" -> "Super"
          [] word = "this" -> "This" [] word = "true" -> "True"
          [] word = "var" -> "Var" [] word = "while" -> "While"]

\* The scanner after advance; its return value is sc.current.
advance(sc) ==
    [sc EXCEPT !.current = chars_next(sc.source, sc.current.index + 1)]

\* The scanner after advance_while; its return value is the new
\* current.index.
RECURSIVE advance_while(_, _)
advance_while(sc, name) ==
    IF sc.current # eof(sc.source) /\ predicate(name, sc.current.char)
    THEN advance_while(advance(sc), name)
    ELSE sc

\* add_token for a TokenType without a payload, and for Number, Str and
\* Identifier, which carry one.
add_token(sc, token_type) ==
    [sc EXCEPT !.tokens = Append(@, Token(token_type, sc.line))]
add_token_value(sc, token_type, value) ==
    [sc EXCEPT !.tokens = Append(@, [token_type |-> token_type,
                                     line |-> sc.line, value |-> value])]

\* &self.source[start..end] as one string
RECURSIVE source_slice(_, _, _)
source_slice(source, start, stop) ==
    IF start >= stop THEN ""
    ELSE source[start] \o source_slice(source, start + 1, stop)

\* str::parse::<f32> of a lexeme digits[.digits]: an integer when the
\* fraction is zero, and otherwise units / 10^scale in lowest decimal terms.
\* (The lexemes scanned here are short: f32 rounding maps no two of them to
\* one value.)
RECURSIVE parse_digits(_, _, _, _)
parse_digits(source, start, stop, units) ==
    IF start >= stop THEN units
    ELSE IF source[start] = "." THEN parse_digits(source, start + 1, stop, units)
    ELSE parse_digits(source, start + 1, stop,
                      units * 10
                      + (CHOOSE d \in 0..9 : ToString(d) = source[start]))
RECURSIVE lowest_terms(_, _)
lowest_terms(units, scale) ==
    IF scale = 0 THEN units
    ELSE IF units % 10 = 0 THEN lowest_terms(units \div 10, scale - 1)
    ELSE [units |-> units, scale |-> scale]
fraction_digits(source, start, stop) ==
    IF \E i \in start..(stop - 1) : source[i] = "."
    THEN stop - 1 - (CHOOSE i \in start..(stop - 1) : source[i] = ".")
    ELSE 0
parse_f32(source, start, stop) ==
    lowest_terms(parse_digits(source, start, stop, 0),
                 fraction_digits(source, start, stop))

\* Mutant of is_next_digit: the dot after the digits is always consumed.
is_next_digit_always(sc) == TRUE

is_next_digit(sc) ==
    /\ sc.current.index + 1 <= Len(sc.source)
    /\ sc.source[sc.current.index + 1] \in is_ascii_digit

number_end(sc, start) ==
    add_token_value(
        IF sc.current.char \in is_ascii_alphabetic
        THEN [sc EXCEPT !.errors =
                 Append(@, "Unexpected character '" \o sc.current.char
                           \o "' after number at line " \o ToString(sc.line))]
        ELSE sc,
        "Number", parse_f32(sc.source, start, sc.current.index))
number_fraction(sc, start) ==
    IF sc.current.char = "." /\ is_next_digit(sc)
    THEN number_end(advance_while(advance(sc), "is_ascii_digit"), start)
    ELSE number_end(sc, start)
number(sc, start) == number_fraction(advance_while(sc, "is_ascii_digit"), start)

Scanner_identifier_end(sc, start) ==
    IF source_slice(sc.source, start, sc.current.index) \in DOMAIN KEYWORDS
    THEN add_token(sc, KEYWORDS[source_slice(sc.source, start, sc.current.index)])
    ELSE add_token_value(sc, "Identifier",
                         source_slice(sc.source, start, sc.current.index))
Scanner_identifier(sc, start) ==
    Scanner_identifier_end(advance_while(sc, "is_alphanumeric_or_underscore"),
                           start)

\* string: the line is not counted while the characters of the literal,
\* newlines among them, are passed over.
string_end(sc, start) ==
    advance(add_token_value(sc, "Str",
                            source_slice(sc.source, start, sc.current.index)))
string(sc) == string_end(advance_while(sc, "not_quote"), sc.current.index)

\* Mutant of match_char: the character after ch is never looked at.
match_char_unmatched(sc, c, matched_token, unmatched_token) ==
    add_token(sc, unmatched_token)

match_char(sc, c, matched_token, unmatched_token) ==
    IF sc.current.char # c THEN add_token(sc, unmatched_token)
    ELSE add_token(advance(sc), matched_token)

SingleCharTokens ==
    ("(" :> "LeftParen") @@ (")" :> "RightParen") @@ ("{" :> "LeftBrace")
    @@ ("}" :> "RightBrace") @@ ("," :> "Comma") @@ ("." :> "Dot")
    @@ ("-" :> "Minus") @@ ("+" :> "Plus") @@ (";" :> "SemiColon")
    @@ ("*" :> "Star")
MatchCharTokens ==
    ("!" :> <<"BangEqual", "Bang">>) @@ ("=" :> <<"EqualEqual", "Equal">>)
    @@ (">" :> <<"GreaterEqual", "Greater">>) @@ ("<" :> <<"LessEqual", "Less">>)

\* Mutant of invalid_character: the scan stops at the invalid character.
invalid_character_stops(sc, ch) ==
    [sc EXCEPT !.errors = Append(@, "Invalid character " \o ch.char
                                    \o " at line " \o ToString(sc.line)),
               !.current = eof(sc.source)]

\* The last arm of scan_token: ch starts no token.
invalid_character(sc, ch) ==
    [sc EXCEPT !.errors = Append(@, "Invalid character " \o ch.char
                                    \o " at line " \o ToString(sc.line))]

\* scan_token after let ch = self.advance(): sc is the scanner advanced.
scan_token_match(sc, ch) ==
    IF ch.char = "\n" THEN [sc EXCEPT !.line = @ + 1]
    ELSE IF ch.char \in is_whitespace THEN sc
    ELSE IF ch.char = "/"
    THEN (IF sc.current.char = "/" THEN advance_while(sc, "not_newline")
          ELSE add_token(sc, "Slash"))
    ELSE IF ch.char = "\"" THEN string(sc)
    ELSE IF ch.char \in DOMAIN SingleCharTokens
    THEN add_token(sc, SingleCharTokens[ch.char])
    ELSE IF ch.char \in DOMAIN MatchCharTokens
    THEN match_char(sc, "=", MatchCharTokens[ch.char][1],
                    MatchCharTokens[ch.char][2])
    ELSE IF ch.char \in is_ascii_digit THEN number(sc, ch.index)
    ELSE IF ch.char \in is_ascii_alphabetic \cup {"_"}
    THEN Scanner_identifier(sc, ch.index)
    ELSE invalid_character(sc, ch)
\* Mutant of scan_token: the character is looked at and not consumed.
scan_token_peek(sc) == scan_token_match(sc, sc.current)

scan_token(sc) ==
    scan_token_match(advance(sc), sc.current)

RECURSIVE scan_loop(_)
scan_loop(sc) ==
    IF sc.current # eof(sc.source) THEN scan_loop(scan_token(sc)) ELSE sc

scan_result(sc) ==
    IF sc.errors = <<>>
    THEN [ok |-> TRUE, tokens |-> sc.tokens, errors |-> <<>>]
    ELSE [ok |-> FALSE, tokens |-> <<>>, errors |-> sc.errors]
scan_tokens(sc) == scan_result(add_token(scan_loop(sc), "Eof"))

scan(source) == scan_tokens(Scanner(source))

(***************************************************************************)
(* SpecScan: scan runs once on a source text.  The texts are all the       *)
(* sequences of at most MaxSourceLen characters of SourceChars, which has  *)
(* a character of each kind the scanner tells apart.                       *)
(***************************************************************************)
MaxSourceLen == 4       \* characters of a source text

SourceChars == {" ", "\n", "/", "\"", "a", "1", ".", ";", "=", "#"}

\* 1234.call, the source of the test integer_method
IntegerMethod == <<"1", "2", "3", "4", ".", "c", "a", "l", "l">>

Sources ==
    UNION {[1..n -> SourceChars] : n \in 0..MaxSourceLen} \cup {IntegerMethod}

InitScan ==
    /\ heap = <<>>
    /\ global_environment = new
    /\ functions = <<>>
    /\ output = <<>>
    /\ error = ""
    /\ last_line = NoLine
    /\ prev_line = NoLine
    /\ nlines = 0
    /\ envs = [id \in EnvIds |-> new]
    /\ captured = FALSE
    /\ marks = <<>>
    /\ proper = TRUE
    /\ created = {}
    /\ cap_values = <<>>
    /\ only_set = FALSE
    /\ last_set = NoSet
    /\ input_tokens = <<>>
    /\ parse_case = NoCase
    /\ parsed = NotParsed
    /\ scan_source \in Sources
    /\ scan_case = NoTokens
    /\ scanned = NotScanned
    /\ scanner = NoScanner
    /\ resolve_case = NoDeclaration
    /\ resolved = NotResolved
    /\ activation = NotCalled

Scan ==
    /\ ~scanned.done
    /\ scanned' = [done |-> TRUE, ok |-> scan(scan_source).ok,
                   tokens |-> scan(scan_source).tokens,
                   errors |-> scan(scan_source).errors]
    /\ UNCHANGED <<scan_source, scan_case, scanner, heap, envVars, interpVars, parseVars,
                   resolveVars>>

NextScan == Scan

SpecScan == InitScan /\ [][NextScan]_vars

(***************************************************************************)
(* SpecScanSteps: the loop of scan_tokens, one call of scan_token per      *)
(* step, then the push of the Eof token.  The loop runs whenever it can,   *)
(* which is the fairness condition.                                        *)
(***************************************************************************)
MaxStepSourceLen == 3   \* characters of a source text scanned step by step

StepSources == UNION {[1..n -> SourceChars] : n \in 0..MaxStepSourceLen}

InitScanSteps ==
    /\ heap = <<>>
    /\ global_environment = new
    /\ functions = <<>>
    /\ output = <<>>
    /\ error = ""
    /\ last_line = NoLine
    /\ prev_line = NoLine
    /\ nlines = 0
    /\ envs = [id \in EnvIds |-> new]
    /\ captured = FALSE
    /\ marks = <<>>
    /\ proper = TRUE
    /\ created = {}
    /\ cap_values = <<>>
    /\ only_set = FALSE
    /\ last_set = NoSet
    /\ input_tokens = <<>>
    /\ parse_case = NoCase
    /\ parsed = NotParsed
    /\ scan_source \in StepSources
    /\ scan_case = NoTokens
    /\ scanned = NotScanned
    /\ scanner = Scanner(scan_source)
    /\ resolve_case = NoDeclaration
    /\ resolved = NotResolved
    /\ activation = NotCalled

\* one turn of `while self.current != self.eof { self.scan_token(); }`
ScanToken ==
    /\ ~scanned.done
    /\ scanner.current # eof(scanner.source)
    /\ scanner' = scan_token(scanner)
    /\ UNCHANGED <<scan_source, scan_case, scanned, heap, envVars, interpVars,
                   parseVars, resolveVars>>

\* the loop is left: the Eof token is pushed and scan returns
PushEof ==
    /\ ~scanned.done
    /\ scanner.current = eof(scanner.source)
    /\ scanner' = add_token(scanner, "Eof")
    /\ scanned' = [done |-> TRUE, ok |-> scan_result(scanner').ok,
                   tokens |-> scan_result(scanner').tokens,
                   errors |-> scan_result(scanner').errors]
    /\ UNCHANGED <<scan_source, scan_case, heap, envVars, interpVars,
                   parseVars, resolveVars>>

NextScanSteps == ScanToken \/ PushEof

SpecScanSteps == InitScanSteps /\ [][NextScanSteps]_vars /\ WF_vars(NextScanSteps)

(***************************************************************************)
(* SpecRoundTrip: scan runs once on a source text that spells a sequence   *)
(* of tokens: the lexemes of at most MaxTokens tokens of TokenAlphabet,    *)
(* with one whitespace character between two lexemes.                      *)
(***************************************************************************)
MaxTokens == 2          \* tokens a source text spells

\* Tokens with their lexemes: the keywords, the punctuation, and some
\* identifiers, numbers and strings.
TokenAlphabet ==
    <<[token_type |-> "And", lexeme |-> <<"a", "n", "d">>],
      [token_type |-> "Class", lexeme |-> <<"c", "l", "a", "s", "s">>],
      [token_type |-> "Else", lexeme |-> <<"e", "l", "s", "e">>],
      [token_type |-> "False", lexeme |-> <<"f", "a", "l", "s", "e">>],
      [token_type |-> "Fun", lexeme |-> <<"f", "u", "n">>],
      [token_type |-> "For", lexeme |-> <<"f", "o", "r">>],
      [token_type |-> "If", lexeme |-> <<"i", "f">>],
      [token_type |-> "Nil", lexeme |-> <<"n", "i", "l">>],
      [token_type |-> "Or", lexeme |-> <<"o", "r">>],
      [token_type |-> "Print", lexeme |-> <<"p", "r", "i", "n", "t">>],
      [token_type |-> "Return", lexeme |-> <<"r", "e", "t", "u", "r", "n">>],
      [token_type |-> "Super", lexeme |-> <<"s", "u", "p", "e", "r">>],
      [token_type |-> "This", lexeme |-> <<"t", "h", "i", "s">>],
      [token_type |-> "True", lexeme |-> <<"t", "r", "u", "e">>],
      [token_type |-> "Var", lexeme |-> <<"v", "a", "r">>],
      [token_type |-> "While", lexeme |-> <<"w", "h", "i", "l", "e">>],
      [token_type |-> "LeftParen", lexeme |-> <<"(">>],
      [token_type |-> "RightParen", lexeme |-> <<")">>],
      [token_type |-> "LeftBrace", lexeme |-> <<"{">>],
      [token_type |-> "RightBrace", lexeme |-> <<"}">>],
      [token_type |-> "Comma", lexeme |-> <<",">>],
      [token_type |-> "Dot", lexeme |-> <<".">>],
      [token_type |-> "Minus", lexeme |-> <<"-">>],
      [token_type |-> "Plus", lexeme |-> <<"+">>],
      [token_type |-> "SemiColon", lexeme |-> <<";">>],
      [token_type |-> "Star", lexeme |-> <<"*">>],
      [token_type |-> "Slash", lexeme |-> <<"/">>],
      [token_type |-> "Bang", lexeme |-> <<"!">>],
      [token_type |-> "BangEqual", lexeme |-> <<"!", "=">>],
      [token_type |-> "Equal", lexeme |-> <<"=">>],
      [token_type |-> "EqualEqual", lexeme |-> <<"=", "=">>],
      [token_type |-> "Greater", lexeme |-> <<">">>],
      [token_type |-> "GreaterEqual", lexeme |-> <<">", "=">>],
      [token_type |-> "Less", lexeme |-> <<"<">>],
      [token_type |-> "LessEqual", lexeme |-> <<"<", "=">>],
      [token_type |-> "Identifier", value |-> "a", lexeme |-> <<"a">>],
      [token_type |-> "Identifier", value |-> "_b1", lexeme |-> <<"_", "b", "1">>],
      [token_type |-> "Identifier", value |-> "fo", lexeme |-> <<"f", "o">>],
      [token_type |-> "Identifier", value |-> "orb", lexeme |-> <<"o", "r", "b">>],
      [token_type |-> "Number", value |-> 7, lexeme |-> <<"7">>],
      [token_type |-> "Number", value |-> 120, lexeme |-> <<"1", "2", "0">>],
      [token_type |-> "Number", value |-> [units |-> 305, scale |-> 2], lexeme |-> <<"3", ".", "0", "5">>],
      [token_type |-> "Str", value |-> "", lexeme |-> <<"\"", "\"">>],
      [token_type |-> "Str", value |-> "hi", lexeme |-> <<"\"", "h", "i", "\"">>],
      [token_type |-> "Str", value |-> "a b;", lexeme |-> <<"\"", "a", " ", "b", ";", "\"">>],
      [token_type |-> "Str", value |-> "x\ny", lexeme |-> <<"\"", "x", "\n", "y", "\"">>]>>

Spaces == {" ", "\n"}

TokenCases ==
    [tokens : UNION {[1..n -> 1..Len(TokenAlphabet)] : n \in 0..MaxTokens},
     space : Spaces]

RECURSIVE JoinLexemes(_, _, _)
JoinLexemes(indexes, space, k) ==
    IF k > Len(indexes) THEN <<>>
    ELSE TokenAlphabet[indexes[k]].lexeme
         \o (IF k < Len(indexes) THEN <<space>> ELSE <<>>)
         \o JoinLexemes(indexes, space, k + 1)

InitRoundTrip ==
    /\ heap = <<>>
    /\ global_environment = new
    /\ functions = <<>>
    /\ output = <<>>
    /\ error = ""
    /\ last_line = NoLine
    /\ prev_line = NoLine
    /\ nlines = 0
    /\ envs = [id \in EnvIds |-> new]
    /\ captured = FALSE
    /\ marks = <<>>
    /\ proper = TRUE
    /\ created = {}
    /\ cap_values = <<>>
    /\ only_set = FALSE
    /\ last_set = NoSet
    /\ input_tokens = <<>>
    /\ parse_case = NoCase
    /\ parsed = NotParsed
    /\ scan_case \in TokenCases
    /\ scan_source = JoinLexemes(scan_case.tokens, scan_case.space, 1)
    /\ scanned = NotScanned
    /\ scanner = NoScanner
    /\ resolve_case = NoDeclaration
    /\ resolved = NotResolved
    /\ activation = NotCalled

SpecRoundTrip == InitRoundTrip /\ [][NextScan]_vars

(***************************************************************************)
(* The resolver (resolver.rs)                                              *)
(*                                                                         *)
(* A Resolver is a record rs: the stack of environment templates, the      *)
(* cells of their bindings, and stack_idx, the slots stamped so far.  The   *)
(* Cell<Option<usize>> of a Variable or Assignment node is the entry of    *)
(* stack_idx at the node's line (the declarations resolved here give each  *)
(* node a line of its own); a node without an entry holds None.  Every     *)
(* visit function returns Ok(()), so the results are left out.             *)
(* Environment::get_var_idx is not in environment.rs: it is the index of   *)
(* the binding a lookup of the name finds, counted from 1 here, 0 for None.*)
(***************************************************************************)
get_var_idx(env, name) == find_slot(env, name, 0)

Resolver_new == [local_environments |-> <<>>, heap |-> <<>>, stack_idx |-> <<>>]

\* self.local_environments.last()
last_environment(rs) == rs.local_environments[Len(rs.local_environments)]

\* stack_idx.set(Some(idx)) on the node of this line
set_stack_idx(rs, line, idx) ==
    [rs EXCEPT !.stack_idx = (line :> idx) @@ @]

\* self.local_environments.push(..) and .pop()
push_environment(rs, env) ==
    [rs EXCEPT !.local_environments = Append(@, env)]
pop_environment(rs) ==
    [rs EXCEPT !.local_environments = SubSeq(@, 1, Len(@) - 1)]

RECURSIVE Resolver_evaluate_expr(_, _)
RECURSIVE Resolver_evaluate_exprs(_, _, _)
RECURSIVE Resolver_execute(_, _)
RECURSIVE Resolver_execute_many(_, _)

Resolver_visit_variable(rs, variable) ==
    IF rs.local_environments # <<>>
       /\ get_var_idx(last_environment(rs), variable.name) # 0
    THEN set_stack_idx(rs, variable.line,
                       get_var_idx(last_environment(rs), variable.name))
    ELSE rs

\* visit_assignment after self.evaluate_expr(&assignment.expr)
Resolver_assign(rs, assign_node) ==
    IF rs.local_environments # <<>>
       /\ get_var_idx(last_environment(rs), assign_node.target) # 0
    THEN set_stack_idx(rs, assign_node.line,
                       get_var_idx(last_environment(rs), assign_node.target))
    ELSE rs

Resolver_visit_assignment(rs, assign_node) ==
    Resolver_assign(Resolver_evaluate_expr(rs, assign_node.expr), assign_node)

Resolver_visit_binary(rs, binary) ==
    Resolver_evaluate_expr(Resolver_evaluate_expr(rs, binary.left), binary.right)

Resolver_visit_call(rs, call_node) ==
    Resolver_evaluate_exprs(Resolver_evaluate_expr(rs, call_node.callee),
                            call_node.arguments, 1)

Resolver_evaluate_exprs(rs, exprs, i) ==
    IF i > Len(exprs) THEN rs
    ELSE Resolver_evaluate_exprs(Resolver_evaluate_expr(rs, exprs[i]), exprs, i + 1)

Resolver_evaluate_expr(rs, expr) ==
    CASE expr.k \in {"Bool", "Str", "Number", "Nil"} -> rs
      [] expr.k = "Binary" -> Resolver_visit_binary(rs, expr)
      [] expr.k \in {"Grouping", "LogicalNot", "UnaryNegate"} ->
            Resolver_evaluate_expr(rs, expr.expr)
      [] expr.k = "Variable" -> Resolver_visit_variable(rs, expr)
      [] expr.k = "Assignment" -> Resolver_visit_assignment(rs, expr)
      [] expr.k = "Call" -> Resolver_visit_call(rs, expr)

\* visit_if after the condition and the true branch
Resolver_else_branch(rs, if_ctx) ==
    IF if_ctx.else_branch.some THEN Resolver_execute(rs, if_ctx.else_branch.stmt)
    ELSE rs

Resolver_visit_if(rs, if_ctx) ==
    Resolver_else_branch(
        Resolver_execute(Resolver_evaluate_expr(rs, if_ctx.condition),
                         if_ctx.true_branch),
        if_ctx)

\* visit_block after the statements ran: the template made for the block
\* is dropped, or the scope is popped.
Resolver_block_pop(rs) ==
    [rs EXCEPT !.local_environments[Len(rs.local_environments)] = pop_scope(@)]

Resolver_visit_block(rs, block) ==
    IF rs.local_environments = <<>>
    THEN pop_environment(
             Resolver_execute_many(push_environment(rs, new), block.statements))
    ELSE Resolver_block_pop(
             Resolver_execute_many(
                 [rs EXCEPT !.local_environments[Len(rs.local_environments)] = push_scope(@)],
                 block.statements))

\* visit_var after self.evaluate_expr(&var.initializer)
Resolver_define(rs, var) ==
    IF rs.local_environments = <<>> THEN rs
    ELSE [rs EXCEPT
            !.local_environments[Len(rs.local_environments)] =
                define_var(last_environment(rs), rs.heap, var.name, Nil).env,
            !.heap = define_var(last_environment(rs), rs.heap, var.name, Nil).heap]

Resolver_visit_var(rs, var) ==
    Resolver_define(Resolver_evaluate_expr(rs, var.initializer), var)

Resolver_visit_while(rs, while_ctx) ==
    Resolver_execute(Resolver_evaluate_expr(rs, while_ctx.condition),
                     while_ctx.body)

\* The template of a function body: neither the name of the function nor
\* its parameters are defined in it.
Resolver_function_env(rs) ==
    IF rs.local_environments # <<>>
    THEN new_capture_env(last_environment(rs), rs.heap).env
    ELSE new

Resolver_visit_function(rs, function) ==
    pop_environment(
        Resolver_execute_many(push_environment(rs, Resolver_function_env(rs)),
                              function.statements))

Resolver_execute(rs, stmt) ==
    CASE stmt.k = "Expr" -> Resolver_evaluate_expr(rs, stmt.expr)
      [] stmt.k = "Print" -> Resolver_evaluate_exprs(rs, stmt.exprs, 1)
      [] stmt.k = "If" -> Resolver_visit_if(rs, stmt)
      [] stmt.k = "Block" -> Resolver_visit_block(rs, stmt)
      [] stmt.k = "Var" -> Resolver_visit_var(rs, stmt)
      [] stmt.k = "While" -> Resolver_visit_while(rs, stmt)
      [] stmt.k = "Function" -> Resolver_visit_function(rs, stmt)
      [] stmt.k = "Return" -> Resolver_evaluate_expr(rs, stmt.expr)

Resolver_execute_many(rs, stmts) ==
    IF Len(stmts) = 0 THEN rs
    ELSE Resolver_execute_many(Resolver_execute(rs, stmts[1]), Tail(stmts))

resolve(stmts) == Resolver_execute_many(Resolver_new, stmts)

(***************************************************************************)
(* SpecResolve: a declaration  fun f(parameters) { body }  is resolved,    *)
(* and f is called.  The body is a sequence of at most MaxBody statements, *)
(* the statement at index j one of                                         *)
(*   Var     var n = 0;                                                    *)
(*   Read    print n;                 the Variable node has line j         *)
(*   Write   n = 1;                   the Assignment node has line j       *)
(*   Block   { var n = 0; print n; }  the Variable node has line j         *)
(* over the names of BodyNames.  Resolve runs the resolver; Call declares   *)
(* f and calls it through the evaluator, and records for each node the     *)
(* environment the node executes in: the local environment of the          *)
(* activation when the statements before the node have run.                *)
(***************************************************************************)
MaxBody == 3            \* statements of the function body

BodyNames == {"a", "x"}
ParameterLists == {<<>>, <<"a">>, <<"a", "b">>}
BodyKinds == {"Var", "Read", "Write", "Block"}

Declarations ==
    [parameters : ParameterLists,
     body : UNION {[1..n -> [kind : BodyKinds, name : BodyNames]] : n \in 0..MaxBody}]

BodyStmt(s, j) ==
    CASE s.kind = "Var" -> new_var(s.name, j, ExprNumber(0))
      [] s.kind = "Read" -> new_print(<<new_variable(s.name, j)>>)
      [] s.kind = "Write" -> new_expr(new_assignment(s.name, j, ExprNumber(1)))
      [] s.kind = "Block" ->
            new_block(<<new_var(s.name, j, ExprNumber(0)),
                        new_print(<<new_variable(s.name, j)>>)>>)

DeclarationOf(case) ==
    new_function("f", case.parameters,
                 [j \in 1..Len(case.body) |-> BodyStmt(case.body[j], j)], 1)

\* The statements that run before the node of statement j.
BeforeNode(case, j) ==
    [i \in 1..(j - 1) |-> BodyStmt(case.body[i], i)]
    \o (IF case.body[j].kind = "Block"
        THEN <<new_block(<<new_var(case.body[j].name, j, ExprNumber(0))>>)>>
        ELSE <<>>)

\* The context of the activation of f: f is declared at top level and
\* called with one argument for each parameter.
ActivationOf(case) ==
    local_interpreter(
        execute([global_environment |-> new, local_environment |-> NoEnv,
                 heap |-> <<>>, functions |-> <<>>, out |-> <<>>],
                DeclarationOf(case), 0).m,
        1, [i \in 1..Len(case.parameters) |-> Number(i)])

\* The binding the node of statement j reads or writes: at is its index in
\* the local environment of the activation (0: the name is not bound
\* there), runs tells that the statements before the node end without an
\* error.
NodeBinding(before, name) ==
    [runs |-> before.go,
     at |-> find_slot(before.m.local_environment.env, name, 0)]

ReadsOf(case) ==
    [j \in 1..Len(case.body) |->
        IF case.body[j].kind = "Var" THEN [runs |-> FALSE, at |-> 0]
        ELSE NodeBinding(execute_many(ActivationOf(case), BeforeNode(case, j), 1),
                         case.body[j].name)]

InitResolve ==
    /\ heap = <<>>
    /\ global_environment = new
    /\ functions = <<>>
    /\ output = <<>>
    /\ error = ""
    /\ last_line = NoLine
    /\ prev_line = NoLine
    /\ nlines = 0
    /\ envs = [id \in EnvIds |-> new]
    /\ captured = FALSE
    /\ marks = <<>>
    /\ proper = TRUE
    /\ created = {}
    /\ cap_values = <<>>
    /\ only_set = FALSE
    /\ last_set = NoSet
    /\ input_tokens = <<>>
    /\ parse_case = NoCase
    /\ parsed = NotParsed
    /\ scan_source = <<>>
    /\ scan_case = NoTokens
    /\ scanned = NotScanned
    /\ scanner = NoScanner
    /\ resolve_case \in Declarations
    /\ resolved = NotResolved
    /\ activation = NotCalled

Resolve ==
    /\ ~resolved.done
    /\ resolved' = [done |-> TRUE,
                    stack_idx |-> resolve(<<DeclarationOf(resolve_case)>>).stack_idx]
    /\ UNCHANGED <<resolve_case, activation, heap, envVars, interpVars, parseVars,
                   scanVars>>

Call ==
    /\ ~activation.done
    /\ activation' = [done |-> TRUE, reads |-> ReadsOf(resolve_case)]
    /\ UNCHANGED <<resolve_case, resolved, heap, envVars, interpVars, parseVars,
                   scanVars>>

NextResolve == Resolve \/ Call

SpecResolve == InitResolve /\ [][NextResolve]_vars

(***************************************************************************)
(* Claims about the evaluator                                              *)
(***************************************************************************)
Printed(value) == <<ToString(value) \o " ", "\n">>

\* C2: for var a = v1; { var a = v2; print a; } print a; the read inside the
\* block yields the inner value v2 and the read after the block yields the
\* outer value v1.  (Stated as the claim has it; the code violates it.)
C2_BlockShadowing ==
    \A v1 \in ShadowValues, v2 \in ShadowValues :
        last_line = <<"Shadow", v1, v2>> => output = Printed(v2) \o Printed(v1)

\* C7: binding the parameters at a call never changes a variable of the
\* closure's captured environment, also when a parameter is spelled like a
\* captured variable: after inner(arg) for fun inner(x) declared where the
\* captured x is x0, the enclosing x is still x0.  (Stated as the claim has
\* it; the code violates it.)
C7_ParametersAreNewBindings ==
    \A x0 \in ParamValues, arg \in ParamValues :
        last_line = <<"Param", x0, arg>> => output = Printed(x0)

\* C8: no cell of a closure's captured environment holds that closure
\* itself, directly or through another closure's captured environment.
\* (Stated as the claim has it; the code violates it.)
FunctionIds == 1..Len(functions)

CapturedCells(f) ==
    IF functions[f].closure.some
    THEN {functions[f].closure.env.values[i].value :
             i \in 1..Len(functions[f].closure.env.values)}
    ELSE {}

Holds(f) == {g \in FunctionIds :
                \E cell \in CapturedCells(f) :
                    heap[cell].t = "Function" /\ heap[cell].v = g}

RECURSIVE ReachedIn(_, _)
ReachedIn(S, n) ==
    IF n = 0 THEN S
    ELSE ReachedIn(S \cup UNION {Holds(g) : g \in S}, n - 1)

ReachableFrom(f) == ReachedIn(Holds(f), Len(functions))

C8_NoSelfReference == \A f \in FunctionIds : f \notin ReachableFrom(f)

\* C9: a function declares a local counter c = c0 and returns an inner
\* function that increments and prints it; the i-th call of the returned
\* function prints c0 + i, in the line that made the closure and in the
\* next line.
RECURSIVE Counted(_, _, _)
Counted(c0, i, k) == IF i > k THEN <<>> ELSE Printed(c0 + i) \o Counted(c0, i + 1, k)

C9_ClosureCounter ==
    \A c0 \in CounterInits, k \in 1..MaxCalls :
        /\ last_line = <<"Counter", c0, k>> =>
              error = "" /\ output = Counted(c0, 1, k)
        /\ (prev_line = <<"Counter", c0, k>> /\ last_line = <<"CallF", 0, 0>>) =>
              error = "" /\ output = Printed(c0 + k + 1)

\* Witness of C9: two calls in the line of the closure printed 1 and 2, and
\* a third call in the next line printed 3.
C9_Witness ==
    /\ prev_line = <<"Counter", 0, 2>>
    /\ last_line = <<"CallF", 0, 0>>
    /\ output = <<"3 ", "\n">>

\* C10: each recursive activation has its own parameter binding, so a
\* recursive factorial returns n!, whichever side of the product holds the
\* recursive call and wherever the function is declared.  (Stated as the
\* claim has it; the code violates it.)
RECURSIVE Factorial(_)
Factorial(n) == IF n <= 1 THEN 1 ELSE n * Factorial(n - 1)

C10_RecursiveFactorial ==
    \A n \in FactArgs \cup NestedArgs :
        (\/ last_line = <<"Fact", n, 1>>
         \/ \E o \in Order : last_line = <<"FactNested", n, o>>)
            => output = Printed(Factorial(n))

\* C11: and / or short-circuit.  For  var x = 0; print <left> <op> (x = 7);
\* print x;  with a left operand that decides the result (falsy for and,
\* truthy for or) the assignment in the right operand does not happen and the
\* value printed is the left operand itself; otherwise it is the right
\* operand's value, 7.  (Stated as the claim has it; the code violates it.)
LeftText == <<"false", "true", "0", "2", "nil">>
LeftTruthy == <<FALSE, TRUE, FALSE, TRUE, FALSE>>

ShortCircuits(op, i) == (op = "And" /\ ~LeftTruthy[i]) \/ (op = "Or" /\ LeftTruthy[i])

C11_ShortCircuit ==
    \A op \in {"And", "Or"}, i \in 1..Len(LeftOperands) :
        last_line = <<op, i, 0>> =>
            /\ error = ""
            /\ output = IF ShortCircuits(op, i)
                        THEN <<LeftText[i] \o " ", "\n">> \o Printed(0)
                        ELSE Printed(7) \o Printed(7)

\* C12: once a Return runs inside nested Block, If and While statements of a
\* function body, no later statement of the body runs (no sibling, no further
\* iteration) and the call's value is the returned value; a body that ends
\* without a Return makes the call yield Nil.  For EarlyReturn(k): the
\* iterations before the k-th print -i, the k-th prints k and returns 10 k;
\* with k = 0 the loop and the body run to their end and the call yields nil.
RECURSIVE ReturnTrace(_, _)
ReturnTrace(k, i) ==
    IF i > 3 THEN Printed(98) \o <<"nil ", "\n">>
    ELSE IF i = k THEN Printed(i) \o Printed(10 * i)
    ELSE Printed(-i) \o ReturnTrace(k, i + 1)

C12_EarlyReturn ==
    \A k \in ReturnArgs :
        last_line = <<"EarlyReturn", k, 0>> =>
            error = "" /\ output = ReturnTrace(k, 1)

\* Witness of C12: the return ran in the second iteration of the loop.
C12_Witness ==
    /\ last_line = <<"EarlyReturn", 2, 0>>
    /\ output = <<"-1 ", "\n", "2 ", "\n", "20 ", "\n">>

\* C13: a call whose argument count differs from the declared parameter
\* count fails with an error naming both counts and the call's line; no
\* argument is evaluated, the body does not run, and the environments, the
\* cells and the closures are as the statements before the call left them.
Before(stmts) ==
    interpret([global_environment |-> global_environment,
               local_environment |-> NoEnv,
               heap |-> heap,
               functions |-> functions,
               out |-> <<>>], stmts).m

C13_ArityMismatch ==
    [][\A p \in ArityCounts, a \in ArityCounts :
          (p # a /\ nlines' = nlines + 1 /\ last_line' = <<"Arity", p, a>>) =>
              /\ error' = "Function expected " \o ToString(p) \o " but got "
                              \o ToString(a) \o ", at line 3"
              /\ output' = <<>>
              /\ global_environment' = Before(ArityDecl(p)).global_environment
              /\ heap' = Before(ArityDecl(p)).heap
              /\ functions' = Before(ArityDecl(p)).functions]_vars

\* Witness of C13: a two-parameter function was called with one argument.
C13_Witness ==
    /\ last_line = <<"Arity", 2, 1>>
    /\ error = "Function expected 2 but got 1, at line 3"
    /\ Reads(global_environment, heap, "x", Number(0))

\* C14: assignment evaluates its right-hand side first, then writes the
\* local binding if the target is bound locally, else the global binding if
\* it is bound there, and returns the assigned value; a target bound in
\* neither fails with "Undefined variable" and creates no binding.
C14_Assignment ==
    /\ \A inside \in {0, 1} :
          last_line = <<"AssignUndefined", inside, 0>> =>
              /\ error = "Undefined variable u at line 1"
              /\ Reads(global_environment, heap, "x", Number(5))
              /\ \A i \in 1..Len(global_environment.values) :
                    ~Binds(global_environment, i, "u")
    /\ last_line = <<"AssignBound", 0, 0>> =>
          /\ error = ""
          /\ output = Printed(3) \o Printed(4) \o Printed(3)
                         \o Printed(1) \o Printed(4)

\* Witness of C14: inside a function, the right-hand side wrote the global x
\* and the assignment to the unbound u failed.
C14_Witness ==
    /\ last_line = <<"AssignUndefined", 1, 0>>
    /\ error = "Undefined variable u at line 1"
    /\ Reads(global_environment, heap, "x", Number(5))

\* C15: for (var i = 0; i < 3; i = i + 1) print i; prints 0, 1, 2, and
\* afterwards i is out of scope: a read of i after the loop fails with an
\* undefined-variable error, or sees the outer i unchanged if there is one.
\* (Stated as the claim has it; the code violates it.)
C15_ForLoopScope ==
    /\ last_line = <<"ForLoop", 0, 0>> =>
          /\ output = Printed(0) \o Printed(1) \o Printed(2)
          /\ error = "Undefined variable i at line 1"
    /\ last_line = <<"ForLoop", 1, 0>> =>
          /\ output = Printed(0) \o Printed(1) \o Printed(2) \o Printed(7)
          /\ error = ""

(***************************************************************************)
(* Claims about the parser                                                 *)
(***************************************************************************)
ParsedTo(stmts) == parsed.ok /\ parsed.errors = <<>> /\ parsed.stmts = stmts

\* C16: for (init; cond; incr) body parses to
\* Block[init, While(cond, Block[body, Expr(incr)])]; without init the result
\* is the While itself, without cond the condition is the literal true, and
\* without incr the body is the While body as it is.
ForInit(tag) ==
    CASE tag = "Var" -> new_var("i", 1, ExprNumber(0))
      [] tag = "Expr" -> new_expr(new_assignment("i", 1, ExprNumber(0)))

ForBody(tag) ==
    IF tag = "Block" THEN new_block(<<new_print(<<V("i")>>)>>)
    ELSE new_print(<<V("i")>>)

ForWhile(shape) ==
    new_while(IF shape[2] = "None" THEN ExprBool(TRUE)
              ELSE new_binary(V("i"), Token("Less", 1), ExprNumber(3)),
              IF shape[3] = "None" THEN ForBody(shape[4])
              ELSE new_block(<<ForBody(shape[4]),
                               new_expr(new_assignment("i", 1,
                                           Plus(V("i"), ExprNumber(1))))>>))

C16_ForDesugar ==
    (parse_case.kind = "for" /\ parsed.done) =>
        ParsedTo(<<IF parse_case.shape[1] = "None" THEN ForWhile(parse_case.shape)
                   ELSE new_block(<<ForInit(parse_case.shape[1]),
                                    ForWhile(parse_case.shape)>>)>>)

\* Witness of C16: for (;;) print i; parsed to the While itself, with the
\* literal true as its condition and the print statement as its body.
C16_Witness ==
    /\ parse_case = [kind |-> "for", shape |-> <<"None", "None", "None", "Print">>]
    /\ parsed.done
    /\ parsed.stmts = <<new_while(ExprBool(TRUE), new_print(<<V("i")>>))>>

\* C17: a call may be followed by another argument list: f followed by n
\* argument lists parses to n nested Call nodes, f()() to
\* Call(Call(Variable f, []), []).  (Stated as the claim has it; the code
\* violates it.)
RECURSIVE NestedCalls(_, _)
NestedCalls(shape, n) ==
    IF n = 0 THEN V("f")
    ELSE new_call(NestedCalls(shape, n - 1), 1,
                  IF shape[n] = "One" THEN <<ExprNumber(1)>> ELSE <<>>)

C17_ChainedCalls ==
    (parse_case.kind = "calls" /\ parsed.done) =>
        ParsedTo(<<new_expr(NestedCalls(parse_case.shape, Len(parse_case.shape)))>>)

\* C18: either operand of or may be a logical-and expression and either
\* operand of and may be an equality expression: a or b and c parses as
\* Or(a, And(b, c)), a and b == c as And(a, Equal(b, c)), a and b or c as
\* Or(And(a, b), c), a == b and c as And(Equal(a, b), c).  (Stated as the
\* claim has it; the code violates it.)
Logic(left, op, right) == new_binary(left, Token(op, 1), right)

C18_LogicalPrecedence ==
    (parse_case.kind = "logic" /\ parsed.done) =>
        /\ parse_case.shape = <<"Or", "And">> =>
              ParsedTo(<<new_expr(Logic(V("a"), "Or", Logic(V("b"), "And", V("c"))))>>)
        /\ parse_case.shape = <<"And", "EqualEqual">> =>
              ParsedTo(<<new_expr(Logic(V("a"), "And",
                                        Logic(V("b"), "EqualEqual", V("c"))))>>)
        /\ parse_case.shape = <<"And", "Or">> =>
              ParsedTo(<<new_expr(Logic(Logic(V("a"), "And", V("b")), "Or", V("c")))>>)
        /\ parse_case.shape = <<"EqualEqual", "And">> =>
              ParsedTo(<<new_expr(Logic(Logic(V("a"), "EqualEqual", V("b")),
                                        "And", V("c")))>>)

\* C19: in a chain of + - * / over primaries, * and / bind tighter than +
\* and -, and operators of one level associate to the left.  The tree of the
\* operands lo..hi of a chain splits at the last + or -, or, when there is
\* none, at the last operator.
RECURSIVE Tree(_, _, _)
Tree(shape, lo, hi) ==
    LET adds == {j \in lo..(hi - 1) : shape[j] \in {"Plus", "Minus"}}
        j == IF adds # {} THEN MaxOf(adds) ELSE hi - 1
    IN  IF lo = hi THEN ExprNumber(lo)
        ELSE new_binary(Tree(shape, lo, j), Token(shape[j], 1), Tree(shape, j + 1, hi))

C19_TermFactor ==
    (parse_case.kind = "arith" /\ parsed.done) =>
        ParsedTo(<<new_expr(Tree(parse_case.shape, 1, Len(parse_case.shape) + 1))>>)

\* Witness of C19: 1 + 2 / 3 - 4 * 5 parsed as
\* Minus(Plus(1, Slash(2, 3)), Star(4, 5)).
C19_Witness ==
    /\ parse_case = [kind |-> "arith", shape |-> <<"Plus", "Slash", "Minus", "Star">>]
    /\ parsed.done
    /\ parsed.stmts =
          <<new_expr(Minus(Plus(ExprNumber(1),
                                new_binary(ExprNumber(2), Token("Slash", 1),
                                           ExprNumber(3))),
                           Star(ExprNumber(4), ExprNumber(5))))>>

(***************************************************************************)
(* Claims about the scanner                                                *)
(***************************************************************************)
\* The newline characters of a source, and its final line number.
RECURSIVE Newlines(_, _)
Newlines(source, i) ==
    IF i > Len(source) THEN 0
    ELSE (IF source[i] = "\n" THEN 1 ELSE 0) + Newlines(source, i + 1)
FinalLine(source) == 1 + Newlines(source, 1)

\* The source is made only of whitespace, newlines and line comments (a
\* line comment runs from // to the next newline or to the end).
RECURSIVE OnlyBlank(_, _, _)
OnlyBlank(source, i, in_comment) ==
    IF i > Len(source) THEN TRUE
    ELSE IF in_comment THEN OnlyBlank(source, i + 1, source[i] # "\n")
    ELSE IF source[i] \in is_whitespace THEN OnlyBlank(source, i + 1, FALSE)
    ELSE IF source[i] = "/" /\ i < Len(source) /\ source[i + 1] = "/"
    THEN OnlyBlank(source, i + 2, TRUE)
    ELSE FALSE

EndsWithOneEof ==
    /\ Len(scanned.tokens) >= 1
    /\ scanned.tokens[Len(scanned.tokens)].token_type = "Eof"
    /\ \A i \in 1..(Len(scanned.tokens) - 1) : scanned.tokens[i].token_type # "Eof"
EofCarriesFinalLine ==
    /\ Len(scanned.tokens) >= 1
    /\ scanned.tokens[Len(scanned.tokens)].line = FinalLine(scan_source)
BlankGivesEof ==
    OnlyBlank(scan_source, 1, FALSE)
        => scanned.tokens = <<Token("Eof", FinalLine(scan_source))>>

\* C20: when scan succeeds, the token sequence ends with exactly one Eof
\* token, which carries the final line number of the source, and holds no
\* other Eof; for a source made only of whitespace, newlines and line
\* comments it is exactly [Eof].  (Stated as the claim has it; the code
\* violates it.)
C20_EofToken ==
    scanned.done /\ scanned.ok
        => EndsWithOneEof /\ EofCarriesFinalLine /\ BlankGivesEof

\* The first index from i on whose character is outside `chars` (or is c),
\* and the length of the source plus one if there is none.
RECURSIVE SkipWhile(_, _, _)
SkipWhile(source, i, chars) ==
    IF i <= Len(source) /\ source[i] \in chars
    THEN SkipWhile(source, i + 1, chars)
    ELSE i
RECURSIVE FirstAt(_, _, _)
FirstAt(source, i, c) ==
    IF i <= Len(source) /\ source[i] # c THEN FirstAt(source, i + 1, c) ELSE i

\* Where the number literal that starts at i ends: digits, and a fraction
\* if a dot and a digit follow them.
NumberEnd(source, i) ==
    LET j == SkipWhile(source, i, is_ascii_digit)
    IN  IF j < Len(source) /\ source[j] = "." /\ source[j + 1] \in is_ascii_digit
        THEN SkipWhile(source, j + 1, is_ascii_digit)
        ELSE j

ValidChars ==
    is_whitespace \cup DOMAIN SingleCharTokens \cup DOMAIN MatchCharTokens
    \cup {"/", "\"", "_"} \cup is_ascii_digit \cup is_ascii_alphabetic

\* The lexical errors of a source, in source order: the characters that
\* start no token (outside string literals and comments), and the
\* alphabetic characters directly after a number literal.
RECURSIVE LexicalErrors(_, _)
LexicalErrors(source, i) ==
    IF i > Len(source) THEN <<>>
    ELSE IF source[i] = "\""
    THEN LexicalErrors(source, FirstAt(source, i + 1, "\"") + 1)
    ELSE IF source[i] = "/" /\ i < Len(source) /\ source[i + 1] = "/"
    THEN LexicalErrors(source, FirstAt(source, i, "\n"))
    ELSE IF source[i] \in is_ascii_digit
    THEN (IF NumberEnd(source, i) <= Len(source)
             /\ source[NumberEnd(source, i)] \in is_ascii_alphabetic
          THEN <<[kind |-> "after_number", char |-> source[NumberEnd(source, i)]]>>
          ELSE <<>>)
         \o LexicalErrors(source, NumberEnd(source, i))
    ELSE IF source[i] \in is_ascii_alphabetic \cup {"_"}
    THEN LexicalErrors(source,
             SkipWhile(source, i,
                       is_ascii_alphabetic \cup is_ascii_digit \cup {"_"}))
    ELSE IF source[i] \in ValidChars THEN LexicalErrors(source, i + 1)
    ELSE <<[kind |-> "invalid", char |-> source[i]]>>
         \o LexicalErrors(source, i + 1)

\* The messages that report a lexical error, whatever line they name.
Messages(e, source) ==
    {(IF e.kind = "invalid"
      THEN "Invalid character " \o e.char \o " at line "
      ELSE "Unexpected character '" \o e.char \o "' after number at line ")
     \o ToString(l) : l \in 1..(Len(source) + 1)}

Reports(errors, source) ==
    /\ Len(errors) = Len(LexicalErrors(source, 1))
    /\ \A k \in 1..Len(errors) :
          errors[k] \in Messages(LexicalErrors(source, 1)[k], source)

\* C21: scanning never stops at a lexical error.  scan consumes the whole
\* source; it records exactly one error per invalid character and one per
\* number directly followed by an alphabetic character, in source order; it
\* returns the errors, and no tokens, if and only if it recorded one.
C21_ErrorsAccumulate ==
    scanned.done =>
        /\ scan_loop(Scanner(scan_source)).current = eof(scan_source)
        /\ Reports(scan_loop(Scanner(scan_source)).errors, scan_source)
        /\ scanned.ok <=> LexicalErrors(scan_source, 1) = <<>>
        /\ scanned.ok => scanned.errors = <<>> /\ scanned.tokens # <<>>
        /\ ~scanned.ok =>
              /\ scanned.tokens = <<>>
              /\ scanned.errors = scan_loop(Scanner(scan_source)).errors
              /\ scanned.errors # <<>>

C21_Witness ==
    /\ scanned.done
    /\ scan_source = <<"#", "1", "a", "#">>
    /\ ~scanned.ok
    /\ scanned.errors = <<"Invalid character # at line 1",
                          "Unexpected character 'a' after number at line 1",
                          "Invalid character # at line 1">>

\* The source starts with digits and a dot, at index DotAt.
DotAt(source) == SkipWhile(source, 1, is_ascii_digit)
DigitsDot(source) ==
    /\ DotAt(source) > 1
    /\ DotAt(source) <= Len(source)
    /\ source[DotAt(source)] = "."
DigitFollows(source) ==
    /\ DotAt(source) < Len(source)
    /\ source[DotAt(source) + 1] \in is_ascii_digit

\* What scan gives for the source from index i on.
RestTokens(source, i) == scan(SubSeq(source, i, Len(source))).tokens

\* C22: a number literal consumes a dot only when a digit follows it.  For
\* digits, a dot and no digit after it, the Number token holds the integer
\* part alone and the dot is a Dot token of its own (1234.call scans to
\* Number(1234), Dot, Identifier(call), Eof); for digits, a dot and digits,
\* one Number token holds the whole literal.
C22_NumberDot ==
    /\ scanned.done /\ scan_source = IntegerMethod
          => /\ scanned.ok
             /\ scanned.tokens = <<NumberToken(1234, 1), Token("Dot", 1),
                                   IdentifierToken("call", 1), Token("Eof", 1)>>
    /\ scanned.done /\ scanned.ok /\ DigitsDot(scan_source)
       /\ ~DigitFollows(scan_source)
          => /\ scanned.tokens[1]
                   = NumberToken(parse_f32(scan_source, 1, DotAt(scan_source)), 1)
             /\ scanned.tokens[2] = Token("Dot", 1)
             /\ Tail(scanned.tokens) = RestTokens(scan_source, DotAt(scan_source))
    /\ scanned.done /\ scanned.ok /\ DigitsDot(scan_source)
       /\ DigitFollows(scan_source)
          => /\ scanned.tokens[1].token_type = "Number"
             /\ scanned.tokens[1].value
                   = parse_f32(scan_source, 1,
                               SkipWhile(scan_source, DotAt(scan_source) + 1,
                                         is_ascii_digit))
             /\ Tail(scanned.tokens)
                   = RestTokens(scan_source,
                                SkipWhile(scan_source, DotAt(scan_source) + 1,
                                          is_ascii_digit))

C22_Witness ==
    /\ scanned.done
    /\ scan_source = IntegerMethod
    /\ Len(scanned.tokens) = 4
    /\ scanned.tokens[2].token_type = "Dot"

\* The indexes at which the tokens of a source start, in source order.
RECURSIVE TokenStarts(_, _)
TokenStarts(source, i) ==
    IF i > Len(source) THEN <<>>
    ELSE IF source[i] = "\""
    THEN <<i>> \o TokenStarts(source, FirstAt(source, i + 1, "\"") + 1)
    ELSE IF source[i] = "/" /\ i < Len(source) /\ source[i + 1] = "/"
    THEN TokenStarts(source, FirstAt(source, i, "\n"))
    ELSE IF source[i] \in is_ascii_digit
    THEN <<i>> \o TokenStarts(source, NumberEnd(source, i))
    ELSE IF source[i] \in is_ascii_alphabetic \cup {"_"}
    THEN <<i>> \o TokenStarts(source,
                      SkipWhile(source, i,
                                is_ascii_alphabetic \cup is_ascii_digit \cup {"_"}))
    ELSE IF source[i] \in DOMAIN MatchCharTokens
            /\ i < Len(source) /\ source[i + 1] = "="
    THEN <<i>> \o TokenStarts(source, i + 2)
    ELSE IF source[i] \in is_whitespace \/ source[i] \notin ValidChars
    THEN TokenStarts(source, i + 1)
    ELSE <<i>> \o TokenStarts(source, i + 1)

\* The line of index i: 1 plus the newlines before it.
LineAt(source, i) == 1 + Newlines(source, 1) - Newlines(source, i)

TokenLines ==
    /\ Len(scanned.tokens) = Len(TokenStarts(scan_source, 1)) + 1
    /\ \A k \in 1..Len(TokenStarts(scan_source, 1)) :
          scanned.tokens[k].line = LineAt(scan_source, TokenStarts(scan_source, 1)[k])

\* C23: every token's line is 1 plus the number of newline characters
\* before the token's first character, for any source, newlines that end a
\* line comment and newlines inside a string literal included; the line of
\* the Eof token is 1 plus the number of all newlines.  (Stated as the
\* claim has it; the code violates it.)
C23_TokenLines ==
    scanned.done /\ scanned.ok => TokenLines /\ EofCarriesFinalLine

\* The same kind of token, with the same payload if the kind has one.
SameToken(token, given) ==
    /\ token.token_type = given.token_type
    /\ given.token_type \in {"Number", "Str", "Identifier"}
          => token.value = given.value

\* C24: scanner round trip.  For every sequence of tokens of the alphabet,
\* scanning their lexemes joined by whitespace succeeds and yields tokens of
\* the same kinds and payloads, in the same order, followed by Eof (the
\* lines aside).
C24_RoundTrip ==
    scanned.done =>
        /\ scanned.ok
        /\ Len(scanned.tokens) = Len(scan_case.tokens) + 1
        /\ \A k \in 1..Len(scan_case.tokens) :
              SameToken(scanned.tokens[k], TokenAlphabet[scan_case.tokens[k]])
        /\ scanned.tokens[Len(scanned.tokens)].token_type = "Eof"

C24_Witness ==
    /\ scanned.done
    /\ scanned.ok
    /\ Len(scan_case.tokens) = MaxTokens
    /\ TokenAlphabet[scan_case.tokens[1]].token_type = "GreaterEqual"
    /\ TokenAlphabet[scan_case.tokens[2]].token_type = "Str"
    /\ scanned.tokens[1].token_type = "GreaterEqual"
    /\ scanned.tokens[2].token_type = "Str"
    /\ scanned.tokens[2].value = "x\ny"

(***************************************************************************)
(* Claims about the resolver                                               *)
(***************************************************************************)
\* C25: for every Variable or Assignment node the resolver stamps with slot
\* k, the binding the evaluator reads or writes for the node at run time is
\* the k-th entry of the binding sequence of the environment the node
\* executes in.  (Stated as the claim has it; the code violates it.)
C25_SlotsMatchBindings ==
    resolved.done /\ activation.done =>
        \A j \in DOMAIN resolved.stack_idx :
            activation.reads[j].runs
                => activation.reads[j].at = resolved.stack_idx[j]

(***************************************************************************)
(* Claims about the Environment and the evaluator, continued               *)
(***************************************************************************)
NonDecreasing(s) == \A i \in 1..(Len(s) - 1) : s[i] <= s[i + 1]

\* C26: in every reachable state of an Environment (after new,
\* new_capture_env, define_var, set_var, push_scope and pop_scope in any
\* order, unmatched pops among them) the scope boundaries are non-decreasing
\* and the last one is at most the number of bindings, so that the slice
\* define_var takes of the active scope is in range.
C26_BoundariesInRange ==
    \A id \in EnvIds :
        Live(id) =>
            /\ NonDecreasing(envs[id].scope_stack)
            /\ last_boundary(envs[id]) <= Len(envs[id].values)

C26_Witness ==
    /\ captured
    /\ envs["c"].scope_stack = <<1, 2>>
    /\ Len(envs["c"].values) = 2
    /\ envs["e"].scope_stack = <<0>>
    /\ envs["e"].values = <<>>

\* One push_scope ran on e and its matching pop_scope after it, and the
\* bindings of e are those of the push.
PushedAndPopped ==
    /\ proper
    /\ marks = <<>>
    /\ Len(envs["e"].scope_stack) = 1
    /\ Len(envs["e"].values) = envs["e"].scope_stack[1]

\* C27: after a push_scope and its matching pop_scope the active scope is
\* again the one that was active before the push: a define_var of a name
\* bound in that scope replaces the binding, and the number of bindings
\* stays the same.  (Stated as the claim has it; the code violates it.)
C27_PopRestoresActiveScope ==
    [][\A name \in EnvNames, value \in EnvValues :
          (DefineVar(name, value) /\ PushedAndPopped /\ ~IsUnbound("e", name))
              => Len(envs'["e"].values) = Len(envs["e"].values)]_vars

\* C28: one evaluation of a binary expression evaluates its left operand
\* exactly once and its right operand at most once, for every operator, and
\* and or included: after  var x = 0;  and one evaluation of a binary
\* expression with x = x + 1 as an operand, x is 1.  (Stated as the claim
\* has it; the code violates it.)
C28_OperandsOnce ==
    \A side \in {0, 1}, i \in 1..Len(OnceOps) :
        last_line = <<"Once", side, i>> =>
            /\ error = ""
            /\ Len(output) = 4
            /\ SubSeq(output, 3, 4) = Printed(1)

\* The names of the bindings of an environment, in order.
NamesOf(env) == [i \in 1..Len(env.values) |-> env.values[i].hash]

\* The global binding of g holds a function declared as DeclareG whose
\* closure is a copy of the activation environment of outer: outer's own
\* name and the local x.
GlobalG ==
    /\ Cardinality({i \in 1..Len(global_environment.values) :
                        global_environment.values[i].hash = "g"}) = 1
    /\ get_var(global_environment, heap, "g").some
    /\ get_var(global_environment, heap, "g").value.t = "Function"
    /\ LET g == functions[get_var(global_environment, heap, "g").value.v]
       IN  /\ g.declaration = DeclareG
           /\ g.closure.some
           /\ NamesOf(g.closure.env) = <<"outer", "x">>

\* visit_function on the context of a state, with `local` as its local
\* environment: the name is bound to the new closure in the global
\* environment (a binding is added only if the name was unbound there), the
\* closure holds `local`, and the local environment is as it was.
DeclaresGlobally(local) ==
    LET m == [global_environment |-> global_environment,
              local_environment |-> local,
              heap |-> heap, functions |-> functions, out |-> <<>>]
        r == visit_function(m, DeclareG)
    IN  /\ r.ok /\ r.go
        /\ r.m.local_environment = local
        /\ r.m.functions = Append(functions, [declaration |-> DeclareG,
                                              closure |-> local])
        /\ get_var(r.m.global_environment, r.m.heap, "g")
              = Some(Function(Len(functions) + 1))
        /\ Len(r.m.global_environment.values)
              = Len(global_environment.values)
                + (IF get_var(global_environment, heap, "g").some THEN 0 ELSE 1)
        /\ \A i \in 1..Len(global_environment.values) :
              r.m.global_environment.values[i] = global_environment.values[i]

\* C29: executing a function declaration binds the name in the global
\* environment, also when it runs inside a function body or a block (the
\* closure is then a copy of the local environment); the name stays bound
\* globally after the enclosing call returns and replaces a global variable
\* of that name, and the bindings of the local environment are unchanged.
C29_FunctionBindsGlobally ==
    /\ DeclaresGlobally(NoEnv)
    /\ DeclaresGlobally(SomeEnv(global_environment))
    /\ \A in_block \in {0, 1} :
          last_line = <<"DeclareInside", in_block, 0>> =>
              /\ error = ""
              /\ output = Printed(1) \o <<"Lox function <g> ", "\n">> \o Printed(2)
              /\ GlobalG

C29_Witness ==
    /\ last_line = <<"DeclareInside", 1, 0>>
    /\ prev_line = <<"DeclareInside", 0, 0>>
    /\ output = Printed(1) \o <<"Lox function <g> ", "\n">> \o Printed(2)
    /\ GlobalG

(***************************************************************************)
(* Claims about the scanner's loop                                         *)
(***************************************************************************)
\* A call of scan_token leaves the scanner further on in the source, and
\* not beyond its end.
Consumes ==
    /\ scanner'.current.index > scanner.current.index
    /\ scanner'.current.index <= Len(scan_source) + 1
    /\ scanner'.current = chars_next(scan_source, scanner'.current.index)

\* What scan returns is what the loop run whole returns, and the scanner
\* is at the end of the source.
ScannedAll ==
    scanned.done =>
        /\ scanner.current = eof(scan_source)
        /\ [ok |-> scanned.ok, tokens |-> scanned.tokens,
            errors |-> scanned.errors] = scan(scan_source)

\* C30: scan terminates on every finite source: each call of scan_token
\* consumes at least one character, and the loops of number, identifier,
\* string and comment stop at the end of the input, also in a string that
\* is not closed and in a comment without a final newline.
C30_ScanTerminates ==
    /\ [][ScanToken => Consumes]_vars
    /\ []ScannedAll
    /\ <>(scanned.done)

\* The scan of "a and of //a has returned: an unclosed string, and a comment
\* that no newline ends.
C30_Witness ==
    /\ scanned.done
    /\ scan_source \in {<<"\"", "a">>, <<"/", "/", "a">>}
    /\ scanner.current = eof(scan_source)
    /\ Len(scanner.tokens) = (IF scan_source[1] = "\"" THEN 2 ELSE 1)

====
